---- MODULE Spec2Model ----
(***************************************************************************)
(* Model of the evn engine's resource store (evn_engine/src/resources.rs)  *)
(* and of the renderer (evn_engine/src/rendering/mod.rs): the shader wait  *)
(* of Renderer::new and the per-tick state machine of Renderer::run.       *)
(***************************************************************************)
EXTENDS Integers, Sequences, FiniteSets, TLC

\* ------------------------------------------------------------------ bounds

\* Number of add_resource calls a behaviour may make.
MaxRegs == 2

\* Number of shader names Renderer::new is given in names["shaders"].
MaxShaders == 2

\* Number of swapchain rebuilds a behaviour of the tick machine may make.
MaxRebuilds == 2

\* Number of images a swapchain may hold.
MaxImages == 2

\* Longest list of present modes a surface reports.
MaxModes == 3

\* Longest list of surface formats a surface reports.
MaxFormats == 2

\* Number of queue families a physical device reports.
MaxFamilies == 2

\* Largest min_image_count a surface reports (max_image_count: one more).
MaxImageCount == 3

\* Longest list of physical devices the instance enumerates.
MaxDevices == 2

\* Longest message, in characters, the driver hands to the debug callback.
MaxMessage == 3

\* Most window events one poll_events call delivers.
MaxEvents == 2

\* --------------------------------------------------------- program constants

MAX_FRAMES_IN_FLIGHT == 2

\* ------------------------------------------------------------------- values

Names == {"normal", "config"}

\* Resource::Shader(Shader { vert, frag }) and Resource::Config(Config).
ShaderRes == [kind |-> "Shader", vert |-> <<1, 2>>, frag |-> <<3>>]
ConfigRes == [kind |-> "Config", conf |-> "yaml"]
NoRes == [kind |-> "None"]

\* What a loader closure F: FnOnce() -> Result<Resource, E> does when run:
\* returns Ok(resource), returns Err(e), never returns, or panics.
Loaders ==
    { [kind |-> "Ok", res |-> ShaderRes, err |-> ""],
      [kind |-> "Ok", res |-> ConfigRes, err |-> ""],
      [kind |-> "Err", res |-> NoRes, err |-> "No such file"],
      [kind |-> "Hang", res |-> NoRes, err |-> ""],
      [kind |-> "Panic", res |-> NoRes, err |-> ""] }

\* enum ResourceState { Loaded(Resource), Loading, Failed }
Loading == [tag |-> "Loading"]

Failed == [tag |-> "Failed"]

Loaded(r) == [tag |-> "Loaded", res |-> r]

is_loading(s) == s.tag = "Loading"
is_loaded(s) == s.tag = "Loaded"
is_failed(s) == s.tag = "Failed"

\* The cause a state value carries: ResourceState::Failed has no field.
Cause(s) == IF "cause" \in DOMAIN s THEN s.cause ELSE ""

\* A panic of the calling thread, as the result of a call.
Panic(why) == [tag |-> "Panic", why |-> why]
is_panic(r) == r.tag = "Panic"

NoReg == [active |-> FALSE]
NoPeek == [name |-> "", result |-> [tag |-> "None"], at |-> 0]
NoActed == [name |-> "", state |-> [tag |-> "None"]]
NoResult == [tag |-> "None"]

\* names["shaders"]: the non-empty lists of distinct names of length <= MaxShaders.
ShaderLists ==
    { l \in UNION { [1..k -> Names] : k \in 1..MaxShaders } :
        \A i, j \in DOMAIN l : i # j => l[i] # l[j] }

VARIABLES
    resources,      \* ResourcesData.resources: the HashMap name -> ResourceState
    poisoned,       \* whether the Mutex around the map is poisoned
    lock_owner,     \* the loader task that holds the Mutex between steps, 0: none
    reg,            \* the add_resource call between its insert and its spawn
    nregs,          \* add_resource calls made so far
    tasks,          \* the spawned loader threads: [name, load, pc]
    log,            \* what the log collaborator received
    peeked,         \* the last get_resource call of an API user: [name, result],
                    \* and at: how many add_resource calls had been made by then
    arcs,           \* the Arc<ResourceState> allocations made so far, by address
    entry,          \* per name: the address of the Arc the map holds for it
    snapshot,       \* the address of the Arc that call of get_resource returned
    shader_names,   \* names["shaders"] given to Renderer::new
    cidx,           \* index of the shader name Renderer::new is at
    cpc,            \* position of Renderer::new
    cacted,         \* the state Renderer::new matched on last: [name, state]
    shader_modules, \* names whose shader modules were created
    built,          \* whether create_swapchain returned a swapchain context
    cres,           \* what Renderer::new returned
    game,           \* what Game::new returned
    pipelines,      \* the pipelines the last successful create_swapchain created
    current_frame,  \* Renderer.current_frame
    fences,         \* in_flight_fences: "signaled", "unsignaled" or "pending"
    swapchain,      \* the swapchain context the Renderer holds: [gen, images]
    fresh,          \* the context create_swapchain returned, not yet stored
    destroyed,      \* generations of swapchain contexts cleanup_swapchain destroyed
    tpc,            \* position of Renderer::run
    image_index,    \* the image index acquire_next_image returned
    ops,            \* the driver calls and steps of the current tick, in order
    exited,         \* whether process::exit was called
    in_flight,      \* per slot: submissions with the slot's fence the GPU has not finished
    vk_log,         \* the Vulkan objects created and destroyed so far, in order
    families,       \* Renderer.graphics_family_index and .present_family_index
    create_info,    \* the SwapchainCreateInfoKHR of the last create_swapchain call
    handles,        \* the other swapchain-dependent fields of the Renderer
    presenting,     \* per slot: a presentation queued with the slot's semaphore
                    \* that the present queue has not completed
    query,          \* the surface data handed to one of the choose_swap_* functions
    choice,         \* what that function returned
    running,        \* the world's Running resource: Running.0
    events,         \* the window events in the channel, sent and not yet received
    lpc,            \* position of Game::run
    ran             \* the systems the dispatcher has run in this loop iteration

storeVars == <<resources, poisoned, lock_owner, reg, nregs, tasks, log, peeked,
              arcs, entry, snapshot>>
newVars == <<shader_names, cidx, cpc, cacted, shader_modules, built, cres, game,
            pipelines>>
frameVars == <<current_frame, fences, swapchain, fresh, destroyed, tpc,
               image_index, ops, exited, in_flight, vk_log,
               families, create_info, handles, presenting>>
chooseVars == <<query, choice>>
loopVars == <<running, events, lpc, ran>>
vars == <<storeVars, newVars, frameVars, chooseVars, loopVars>>

\* ---------------------------------------------------------- resource store

\* HashMap::insert(name, state): adds the key or overwrites its value.
Insert(map, name, state) ==
    [n \in DOMAIN map \cup {name} |-> IF n = name THEN state ELSE map[n]]

\* Arc::new(state) put in the place of the Arc at addr (map.insert(name,
\* Arc::new(..)) and *val = Arc::new(..)): a new allocation, which the place
\* then points to; an Arc handed out earlier keeps the old allocation alive.
ArcReplaceInPlace(heap, addr, state) ==
    [heap |-> [heap EXCEPT ![addr] = state], addr |-> addr]
ArcReplace(heap, addr, state) ==
    [heap |-> Append(heap, state), addr |-> Len(heap) + 1]

\* self.resources.lock().unwrap(): panics when the Mutex is poisoned.
LockPanics == poisoned

\* self.resources.lock() by a thread (a loader task's number, 0 for any other
\* thread) returns once no other thread holds the Mutex.
CanLock(thread) == lock_owner \in {0, thread}

\* Who holds the Mutex while task i runs load(): the task locks only after
\* load() returned, in the arm of the match.
HeldWhileLoadingByTask(i) == i
HeldWhileLoading(i) == 0

\* ResourcesData::get_resource: the value returned, or the panic.
get_resource(name) ==
    IF LockPanics THEN Panic("PoisonError")
    ELSE IF name \in DOMAIN resources THEN resources[name]
    ELSE Panic("Called Resources::get_resource on nonexistent resource")

\* The expect of get_resource panics while the MutexGuard is alive: the
\* guard is dropped by a panicking thread, which poisons the Mutex.
PoisonedAfterGet(name) == poisoned \/ name \notin DOMAIN resources

\* ResourcesData::add_resource, first half: insert Loading under the lock.
AddResourceInsert(name, load) ==
    /\ ~reg.active
    /\ nregs < MaxRegs
    /\ CanLock(0)
    /\ nregs' = nregs + 1
    /\ IF LockPanics
         THEN UNCHANGED <<resources, reg, arcs, entry>>
         ELSE /\ resources' = Insert(resources, name, Loading)
              /\ arcs' = Append(arcs, Loading)
              /\ entry' = Insert(entry, name, Len(arcs) + 1)
              /\ reg' = [active |-> TRUE, name |-> name, load |-> load]
    /\ UNCHANGED <<poisoned, lock_owner, tasks, log, peeked, snapshot, newVars>>
    /\ UNCHANGED <<frameVars, chooseVars, loopVars>>

\* ResourcesData::add_resource, second half: thread::spawn of the loader task.
AddResourceSpawn ==
    /\ reg.active
    /\ tasks' = Append(tasks, [name |-> reg.name, load |-> reg.load, pc |-> "loading"])
    /\ reg' = NoReg
    /\ lock_owner' = IF lock_owner = 0 THEN HeldWhileLoading(Len(tasks) + 1)
                                       ELSE lock_owner
    /\ UNCHANGED <<resources, poisoned, nregs, log, peeked, newVars>>
    /\ UNCHANGED <<arcs, entry, snapshot>>
    /\ UNCHANGED <<frameVars, chooseVars, loopVars>>

\* The state the task writes for the result of load().
StoredStateAlwaysLoaded(load) == Loaded(load.res)
StoredState(load) == IF load.kind = "Ok" THEN Loaded(load.res) ELSE Failed

\* warn!("Failed to load resource {}: {}", name, err)
WarnNothing(name, err) == {}
Warn(name, err) == {[level |-> "warn", name |-> name, text |-> err]}

\* info!("Resource \"{}\" loaded!", name)
Info(name) == {[level |-> "info", name |-> name, text |-> "loaded"]}

\* The task runs load(): it returns Ok or Err (the Err arm logs the warning
\* before it takes the lock), or it panics and the thread ends.
TaskLoad(i) ==
    /\ tasks[i].pc = "loading"
    /\ tasks[i].load.kind \in {"Ok", "Err", "Panic"}
    /\ tasks' = [tasks EXCEPT ![i].pc =
                    CASE tasks[i].load.kind = "Ok" -> "ok"
                      [] tasks[i].load.kind = "Err" -> "err"
                      [] OTHER -> "panicked"]
    /\ log' = IF tasks[i].load.kind = "Err"
                THEN log \cup Warn(tasks[i].name, tasks[i].load.err)
                ELSE log
    /\ UNCHANGED <<resources, poisoned, lock_owner, reg, nregs, peeked, newVars>>
    /\ UNCHANGED <<arcs, entry, snapshot>>
    /\ UNCHANGED <<frameVars, chooseVars, loopVars>>

\* The task takes the lock and replaces the entry of its name, if present.
TaskStore(i) ==
    /\ tasks[i].pc \in {"ok", "err"}
    /\ CanLock(i)
    /\ lock_owner' = 0
    /\ IF LockPanics
         THEN /\ tasks' = [tasks EXCEPT ![i].pc = "panicked"]
              /\ UNCHANGED <<resources, log, arcs, entry>>
         ELSE /\ tasks' = [tasks EXCEPT ![i].pc = "done"]
              /\ resources' =
                    IF tasks[i].name \in DOMAIN resources
                      THEN [resources EXCEPT ![tasks[i].name] = StoredState(tasks[i].load)]
                      ELSE resources
              /\ IF tasks[i].name \in DOMAIN entry
                   THEN LET r == ArcReplace(arcs, entry[tasks[i].name],
                                            StoredState(tasks[i].load))
                        IN  /\ arcs' = r.heap
                            /\ entry' = [entry EXCEPT ![tasks[i].name] = r.addr]
                   ELSE UNCHANGED <<arcs, entry>>
              /\ log' = IF tasks[i].pc = "ok" /\ tasks[i].name \in DOMAIN resources
                          THEN log \cup Info(tasks[i].name)
                          ELSE log
    /\ UNCHANGED <<poisoned, reg, nregs, peeked, snapshot, newVars>>
    /\ UNCHANGED <<frameVars, chooseVars, loopVars>>

\* A thread of the engine's user calls get_resource(name).
Peek(name) ==
    /\ CanLock(0)
    /\ peeked' = [name |-> name, result |-> get_resource(name), at |-> nregs]
    /\ snapshot' = IF is_panic(get_resource(name)) THEN 0 ELSE entry[name]
    /\ poisoned' = PoisonedAfterGet(name)
    /\ UNCHANGED <<arcs, entry>>
    /\ UNCHANGED <<resources, lock_owner, reg, nregs, tasks, log, newVars>>
    /\ UNCHANGED <<frameVars, chooseVars, loopVars>>

\* ------------------------------------------------------------ Renderer::new

\* enum RendererInitError
RendererInitErrors ==
    { "LoadingError", "InstanceError", "DebugCallbackError", "SurfaceCreationError",
      "PhysicalDeviceError", "DeviceCreationError", "SwapchainCreationError",
      "ShaderLoadingError", "PipelineCreationError", "FramebufferCreationError",
      "CommandBufferError", "SyncCreationError" }

ShaderLoadingError(name, err) ==
    [tag |-> "Err", error |-> "ShaderLoadingError", name |-> name, err |-> err]
OkRenderer == [tag |-> "Ok"]
InitErrorSwallowed(error) == OkRenderer
InitError(error) == [tag |-> "Err", error |-> error, name |-> "", err |-> "vk"]

\* What the steps before the shaders can end with, in their order: Entry::new,
\* create_instance, the debug messenger (only with validation), create_surface,
\* the choice of a physical device, create_device.
StartResults(validation) ==
    { "Ok", "LoadingError", "InstanceError", "SurfaceCreationError",
      "PhysicalDeviceError", "DeviceCreationError" }
        \cup (IF validation THEN {"DebugCallbackError"} ELSE {})

\* Renderer::new up to the two queues: each step ends the call with its error
\* (map_err(..)?), and nothing is tried again.
RendererStart(validation, r) ==
    /\ cpc = "start"
    /\ r \in StartResults(validation)
    /\ IF r = "Ok" THEN cpc' = "poll" /\ cres' = cres
                   ELSE cpc' = "failed" /\ cres' = InitError(r)
    /\ UNCHANGED <<storeVars, shader_names, cidx, cacted, shader_modules, built, game>>
    /\ UNCHANGED pipelines
    /\ UNCHANGED <<frameVars, chooseVars, loopVars>>

shader_nameConfig == "config"
shader_name == shader_names[cidx]

\* while res.read().unwrap().get_resource(shader_name).is_loading()
RendererPoll ==
    /\ cpc = "poll"
    /\ CanLock(0)
    /\ LET r == get_resource(shader_name) IN
        /\ poisoned' = PoisonedAfterGet(shader_name)
        /\ IF is_panic(r)
             THEN cpc' = "panicked" /\ cres' = r
             ELSE /\ cpc' = IF is_loading(r) THEN "sleep" ELSE "resolve"
                  /\ cres' = cres
    /\ UNCHANGED <<resources, lock_owner, reg, nregs, tasks, log, peeked>>
    /\ UNCHANGED <<arcs, entry, snapshot>>
    /\ UNCHANGED <<shader_names, cidx, cacted, shader_modules, built, game>>
    /\ UNCHANGED pipelines
    /\ UNCHANGED <<frameVars, chooseVars, loopVars>>

\* thread::sleep(Duration::from_millis(10))
RendererSleep ==
    /\ cpc = "sleep"
    /\ cpc' = "poll"
    /\ UNCHANGED <<storeVars, shader_names, cidx, cacted, shader_modules, built, cres, game>>
    /\ UNCHANGED pipelines
    /\ UNCHANGED <<frameVars, chooseVars, loopVars>>

\* What the match on the re-read state yields for a state the store returned:
\* "Modules" (go on to create the two shader modules), a panic, or the error.
MatchResourceIgnoresFailed(name, state) ==
    IF is_loaded(state)
      THEN IF state.res.kind = "Shader"
             THEN [tag |-> "Modules"]
             ELSE Panic("Non shader resource in shader List")
      ELSE IF is_failed(state)
             THEN [tag |-> "Modules"]
             ELSE ShaderLoadingError(name, "Failed shader requested")
MatchResourceAnyLoaded(name, state) ==
    IF is_loaded(state)
      THEN [tag |-> "Modules"]
      ELSE ShaderLoadingError(name, "Failed shader requested")
MatchResource(name, state) ==
    IF is_loaded(state)
      THEN IF state.res.kind = "Shader"
             THEN [tag |-> "Modules"]
             ELSE Panic("Non shader resource in shader List")
      ELSE ShaderLoadingError(name, "Failed shader requested")

\* let resource = res.read().unwrap().get_resource(shader_name); match *resource
\* modules_ok: whether both create_shader_module calls of the driver succeed.
RendererResolve(modules_ok) ==
    /\ cpc = "resolve"
    /\ CanLock(0)
    /\ LET r == get_resource(shader_name)
           m == MatchResource(shader_name, r) IN
        /\ poisoned' = PoisonedAfterGet(shader_name)
        /\ IF is_panic(r)
             THEN /\ cpc' = "panicked" /\ cres' = r
                  /\ UNCHANGED <<cacted, shader_modules, cidx>>
             ELSE /\ cacted' = [name |-> shader_name, state |-> r]
                  /\ IF m.tag = "Modules"
                       THEN IF modules_ok
                              THEN /\ shader_modules' = Append(shader_modules, shader_name)
                                   /\ cres' = cres
                                   /\ IF cidx < Len(shader_names)
                                        THEN cidx' = cidx + 1 /\ cpc' = "poll"
                                        ELSE cidx' = cidx /\ cpc' = "command_pool"
                              ELSE /\ cres' = ShaderLoadingError(shader_name, "vk")
                                   /\ cpc' = "failed"
                                   /\ UNCHANGED <<shader_modules, cidx>>
                       ELSE /\ cres' = m
                            /\ cpc' = IF is_panic(m) THEN "panicked" ELSE "failed"
                            /\ UNCHANGED <<shader_modules, cidx>>
    /\ UNCHANGED <<arcs, entry, snapshot>>
    /\ UNCHANGED <<resources, lock_owner, reg, nregs, tasks, log, peeked,
                 shader_names, built, game, pipelines>>
    /\ UNCHANGED <<frameVars, chooseVars, loopVars>>

\* device.create_command_pool(..).map_err(CommandBufferError)?
RendererCommandPool(ok) ==
    /\ cpc = "command_pool"
    /\ IF ok THEN cpc' = "create_swapchain" /\ cres' = cres
             ELSE cpc' = "failed" /\ cres' = InitError("CommandBufferError")
    /\ UNCHANGED <<storeVars, shader_names, cidx, cacted, shader_modules, built, game>>
    /\ UNCHANGED pipelines
    /\ UNCHANGED <<frameVars, chooseVars, loopVars>>

\* What create_swapchain can end with: the swapchain and its image views
\* (SwapchainCreationError), the layout, render pass and pipeline, the
\* framebuffers, the command buffers.
CreateSwapchainResults ==
    { "Ok", "SwapchainCreationError", "PipelineCreationError",
      "FramebufferCreationError", "CommandBufferError" }

\* One PipelineShaderStageCreateInfo: the stage and the shader (by name) whose
\* module of that stage it uses.
Stage(stage, name) == [stage |-> stage, module |-> name]

\* create_swapchain's stage_create_infos: for every pair of shader_modules, in
\* order, the vertex stage and then the fragment stage.
stage_create_infos(modules) ==
    [k \in 1..(2 * Len(modules)) |->
        Stage(IF k % 2 = 1 THEN "VERTEX" ELSE "FRAGMENT", modules[(k + 1) \div 2])]

\* create_graphics_pipelines(null, &[pipeline_create_info], None)?[0]: one
\* pipeline, whose create info was given .stages(&stage_create_infos).
create_graphics_pipelines(modules) == <<[stages |-> stage_create_infos(modules)]>>

\* create_swapchain(..)?
RendererCreateSwapchain(r) ==
    /\ cpc = "create_swapchain"
    /\ IF r = "Ok" THEN /\ cpc' = "sync" /\ built' = TRUE /\ cres' = cres
                        /\ pipelines' = create_graphics_pipelines(shader_modules)
                   ELSE /\ cpc' = "failed" /\ built' = built /\ cres' = InitError(r)
                        /\ pipelines' = pipelines
    /\ UNCHANGED <<storeVars, shader_names, cidx, cacted, shader_modules, game>>
    /\ UNCHANGED <<frameVars, chooseVars, loopVars>>

\* the semaphores and fences, then Ok(Renderer { .. })
RendererSync(ok) ==
    /\ cpc = "sync"
    /\ IF ok THEN cpc' = "done" /\ cres' = OkRenderer
             ELSE cpc' = "failed" /\ cres' = InitError("SyncCreationError")
    /\ UNCHANGED <<storeVars, shader_names, cidx, cacted, shader_modules, built, game>>
    /\ UNCHANGED pipelines
    /\ UNCHANGED <<frameVars, chooseVars, loopVars>>

\* Game::new: Renderer::new(..).map_err(|err| GameInitError::RendererCreation { err })?
RendererCreation(err) == [tag |-> "Err", error |-> "RendererCreation", err |-> err]
OkGame == [tag |-> "Ok"]

GameNew ==
    /\ cpc \in {"done", "failed"}
    /\ game = NoResult
    /\ game' = IF cres.tag = "Err" THEN RendererCreation(cres) ELSE OkGame
    /\ UNCHANGED <<storeVars, shader_names, cidx, cpc, cacted, shader_modules, built, cres>>
    /\ UNCHANGED pipelines
    /\ UNCHANGED <<frameVars, chooseVars, loopVars>>

\* ------------------------------------------------------------ Renderer::run

Slots == 0..(MAX_FRAMES_IN_FLIGHT - 1)

\* The queue family indices a physical device of the model has.
QueueFamilies == 0..(MaxFamilies - 1)

\* One entry of the tick's trace: a driver call (or step) and what it was given.
\* slot: the index into in_flight_fences / the semaphore vectors it used;
\* image: the image index it used; result: what the driver returned.
Op(op, slot, image, result) ==
    [op |-> op, slot |-> slot, image |-> image, result |-> result]

\* One entry of vk_log: act is "create" or "destroy", obj the kind of Vulkan
\* object, gen the swapchain context it belongs to (-1: none, it lives as
\* long as the Renderer), idx its index in its Vec (-1: a single handle).
Ev(act, obj, gen, idx) == [act |-> act, obj |-> obj, gen |-> gen, idx |-> idx]

\* One event per element of a Vec of n handles, in iteration order.
Each(act, obj, gen, n) == [i \in 1..n |-> Ev(act, obj, gen, i - 1)]

\* What Renderer::new creates before the swapchain context, in order; the
\* messenger only when validation is on; two modules per shader.
NewCreatesDevice(validation, shaders_n) ==
    <<Ev("create", "instance", -1, -1)>>
      \o (IF validation THEN <<Ev("create", "debug_utils_messenger", -1, -1)>> ELSE <<>>)
      \o <<Ev("create", "surface", -1, -1), Ev("create", "device", -1, -1)>>
      \o Each("create", "shader_module", -1, 2 * shaders_n)
      \o <<Ev("create", "command_pool", -1, -1)>>

\* The state Renderer::new creates each in-flight fence in:
\* FenceCreateInfo::builder().flags(FenceCreateFlags::SIGNALED).
FenceCreatedUnsignaled == "unsignaled"
FenceCreated == "signaled"

\* What Renderer::new creates after the swapchain context: per slot an
\* image-available semaphore, a render-finished semaphore and a fence.
NewCreatesSync ==
    [k \in 1..(3 * MAX_FRAMES_IN_FLIGHT) |->
        Ev("create",
           CASE k % 3 = 1 -> "image_available_semaphore"
             [] k % 3 = 2 -> "render_finished_semaphore"
             [] OTHER -> "in_flight_fence",
           -1, (k - 1) \div 3)]

\* What a successful create_swapchain creates, in order, for context gen of
\* images_n images.
SwapchainCreates(gen, images_n) ==
    <<Ev("create", "swapchain", gen, -1)>>
      \o Each("create", "image_view", gen, images_n)
      \o <<Ev("create", "pipeline_layout", gen, -1),
           Ev("create", "render_pass", gen, -1),
           Ev("create", "pipeline", gen, -1)>>
      \o Each("create", "framebuffer", gen, images_n)
      \o <<Ev("create", "command_buffers", gen, -1)>>

\* A Vec of n handles (n = 1: a single handle) of the swapchain context gen.
Handles(gen, n) == [gen |-> gen, n |-> n]

\* What create_swapchain returns with the swapchain of the context gen, of
\* images_n images: one image view per image, one framebuffer per image view,
\* as many command buffers as framebuffers, the i-th recorded with
\* swapchain_framebuffers[i]; one layout, one render pass, one pipeline.
create_swapchainOneCommandBuffer(gen, images_n) ==
    [image_views |-> Handles(gen, images_n),
     pipeline_layout |-> Handles(gen, 1),
     render_pass |-> Handles(gen, 1),
     pipeline |-> Handles(gen, 1),
     swapchain_framebuffers |-> Handles(gen, images_n),
     command_buffers |-> [gen |-> gen, n |-> 1, framebuffer |-> <<0>>]]
create_swapchain(gen, images_n) ==
    LET image_views == Handles(gen, images_n)
        swapchain_framebuffers == Handles(gen, image_views.n)
        command_buffer_count == swapchain_framebuffers.n
    IN  [image_views |-> image_views,
         pipeline_layout |-> Handles(gen, 1),
         render_pass |-> Handles(gen, 1),
         pipeline |-> Handles(gen, 1),
         swapchain_framebuffers |-> swapchain_framebuffers,
         command_buffers |-> [gen |-> gen, n |-> command_buffer_count,
                              framebuffer |-> [i \in 1..command_buffer_count |-> i - 1]]]

\* cleanup_swapchain(..) of the handles ctx (the swapchain and the six others):
\* what it frees and destroys, in order.
cleanup_swapchainViewsFirst(ctx) ==
    Each("destroy", "image_view", ctx.image_views.gen, ctx.image_views.n)
      \o Each("destroy", "framebuffer", ctx.swapchain_framebuffers.gen,
              ctx.swapchain_framebuffers.n)
      \o <<Ev("destroy", "pipeline", ctx.pipeline.gen, -1),
           Ev("destroy", "pipeline_layout", ctx.pipeline_layout.gen, -1),
           Ev("destroy", "render_pass", ctx.render_pass.gen, -1),
           Ev("destroy", "command_buffers", ctx.command_buffers.gen, -1),
           Ev("destroy", "swapchain", ctx.swapchain.gen, -1)>>
cleanup_swapchainSwapchainFirst(ctx) ==
    <<Ev("destroy", "swapchain", ctx.swapchain.gen, -1),
      Ev("destroy", "command_buffers", ctx.command_buffers.gen, -1)>>
      \o Each("destroy", "framebuffer", ctx.swapchain_framebuffers.gen,
              ctx.swapchain_framebuffers.n)
      \o <<Ev("destroy", "pipeline", ctx.pipeline.gen, -1),
           Ev("destroy", "pipeline_layout", ctx.pipeline_layout.gen, -1),
           Ev("destroy", "render_pass", ctx.render_pass.gen, -1)>>
      \o Each("destroy", "image_view", ctx.image_views.gen, ctx.image_views.n)
cleanup_swapchain(ctx) ==
    <<Ev("destroy", "command_buffers", ctx.command_buffers.gen, -1)>>
      \o Each("destroy", "framebuffer", ctx.swapchain_framebuffers.gen,
              ctx.swapchain_framebuffers.n)
      \o <<Ev("destroy", "pipeline", ctx.pipeline.gen, -1),
           Ev("destroy", "pipeline_layout", ctx.pipeline_layout.gen, -1),
           Ev("destroy", "render_pass", ctx.render_pass.gen, -1)>>
      \o Each("destroy", "image_view", ctx.image_views.gen, ctx.image_views.n)
      \o <<Ev("destroy", "swapchain", ctx.swapchain.gen, -1)>>

\* The seven swapchain-dependent fields of the Renderer, as run and drop pass
\* them to cleanup_swapchain.
Held ==
    [swapchain |-> swapchain,
     image_views |-> handles.image_views,
     pipeline_layout |-> handles.pipeline_layout,
     render_pass |-> handles.render_pass,
     pipeline |-> handles.pipeline,
     swapchain_framebuffers |-> handles.swapchain_framebuffers,
     command_buffers |-> handles.command_buffers]

\* Result::unwrap_or_log on Err: error!(..) then process::exit(1).
ExitTick(op, slot) ==
    /\ tpc' = "exited"
    /\ exited' = TRUE
    /\ ops' = Append(ops, Op(op, slot, -1, "Err"))

\* self.device.wait_for_fences(&[in_flight_fences[current_frame]], true, MAX):
\* returns once the fence is signaled (or with a driver error). A new tick's
\* trace starts here.
FenceWaitReturnsAlways(slot) == TRUE
FenceWaitReturns(slot) == fences[slot] = "signaled"

WaitForFences(ok) ==
    /\ tpc = "idle"
    /\ IF ok
         THEN /\ FenceWaitReturns(current_frame)
              /\ tpc' = "acquire_next_image"
              /\ ops' = <<Op("wait_for_fences", current_frame, -1, "Ok")>>
              /\ exited' = exited
         ELSE /\ tpc' = "exited"
              /\ exited' = TRUE
              /\ ops' = <<Op("wait_for_fences", current_frame, -1, "Err")>>
    /\ UNCHANGED <<current_frame, fences, in_flight, swapchain, fresh,
                 destroyed, vk_log, image_index>>
    /\ UNCHANGED <<families, create_info, handles, presenting>>
    /\ UNCHANGED <<storeVars, newVars, chooseVars, loopVars>>

\* What acquire_next_image may return for the swapchain held.
AcquireResults ==
    { [tag |-> "Ok", image |-> i] : i \in 0..(swapchain.images - 1) }
        \cup { [tag |-> "ERROR_OUT_OF_DATE_KHR", image |-> -1],
               [tag |-> "ERROR_DEVICE_LOST", image |-> -1] }

\* The arm of the match on next_image that a result takes.
AcquireArmNoRebuild(r) ==
    IF r.tag = "Ok" \/ r.tag = "ERROR_OUT_OF_DATE_KHR" THEN "continue" ELSE "exit"
AcquireArm(r) ==
    CASE r.tag = "Ok" -> "continue"
      [] r.tag = "ERROR_OUT_OF_DATE_KHR" -> "recreate"
      [] OTHER -> "exit"

\* self.swapchain_loader.acquire_next_image(swapchain, MAX,
\*     image_available_semaphores[current_frame], null) and the match on it.
AcquireNextImage(r) ==
    /\ tpc = "acquire_next_image"
    /\ r.tag = "ERROR_OUT_OF_DATE_KHR" => swapchain.gen < MaxRebuilds
    /\ ops' = Append(ops, Op("acquire_next_image", current_frame, r.image, r.tag))
    /\ CASE AcquireArm(r) = "continue" ->
              /\ image_index' = r.image
              /\ tpc' = "reset_fences"
              /\ exited' = exited
         [] AcquireArm(r) = "recreate" ->
              /\ tpc' = "queue_wait_idle"
              /\ UNCHANGED <<image_index, exited>>
         [] OTHER ->
              /\ tpc' = "exited"
              /\ exited' = TRUE
              /\ UNCHANGED image_index
    /\ UNCHANGED <<current_frame, fences, in_flight, swapchain, fresh, destroyed, vk_log>>
    /\ UNCHANGED <<families, create_info, handles, presenting>>
    /\ UNCHANGED <<storeVars, newVars, chooseVars, loopVars>>

\* self.device.reset_fences(&[in_flight_fences[current_frame]])
ResetFences(ok) ==
    /\ tpc = "reset_fences"
    /\ IF ok
         THEN /\ fences' = [fences EXCEPT ![current_frame] = "unsignaled"]
              /\ tpc' = "queue_submit"
              /\ ops' = Append(ops, Op("reset_fences", current_frame, -1, "Ok"))
              /\ exited' = exited
         ELSE ExitTick("reset_fences", current_frame) /\ UNCHANGED fences
    /\ UNCHANGED <<current_frame, in_flight, swapchain, fresh, destroyed, vk_log,
                 image_index>>
    /\ UNCHANGED <<families, create_info, handles, presenting>>
    /\ UNCHANGED <<storeVars, newVars, chooseVars, loopVars>>

\* The slot whose semaphores and fence queue_submit is given.
SubmitSlotOther == (current_frame + 1) % MAX_FRAMES_IN_FLIGHT
SubmitSlot == current_frame

\* queue_submit(graphics_queue, [submit_info], in_flight_fences[current_frame]):
\* command_buffers[image_index], waiting on image_available[current_frame],
\* signalling render_finished[current_frame] and the fence.
QueueSubmit(ok) ==
    /\ tpc = "queue_submit"
    /\ IF ok
         THEN /\ fences' = [fences EXCEPT ![SubmitSlot] = "pending"]
              /\ in_flight' = [in_flight EXCEPT ![SubmitSlot] = @ + 1]
              /\ tpc' = "queue_present"
              /\ ops' = Append(ops, Op("queue_submit", SubmitSlot, image_index, "Ok"))
              /\ exited' = exited
         ELSE ExitTick("queue_submit", SubmitSlot) /\ UNCHANGED <<fences, in_flight>>
    /\ UNCHANGED <<current_frame, swapchain, fresh, destroyed, vk_log, image_index>>
    /\ UNCHANGED <<families, create_info, handles, presenting>>
    /\ UNCHANGED <<storeVars, newVars, chooseVars, loopVars>>

\* What queue_present may return.
PresentResults == {"Ok", "ERROR_OUT_OF_DATE_KHR", "ERROR_SURFACE_LOST_KHR"}

\* .unwrap_or_log("Failed to submit to present queue"): every Err, out-of-date
\* included, ends the process.
PresentArmRecovers(r) ==
    IF r \in {"Ok", "ERROR_OUT_OF_DATE_KHR"} THEN "advance" ELSE "exited"
PresentArm(r) == IF r = "Ok" THEN "advance" ELSE "exited"

\* queue_present(present_queue, ..): image_index, waiting on
\* render_finished[current_frame].
QueuePresent(r) ==
    /\ tpc = "queue_present"
    /\ tpc' = PresentArm(r)
    /\ exited' = (exited \/ PresentArm(r) = "exited")
    /\ ops' = Append(ops, Op("queue_present", current_frame, image_index, r))
    /\ presenting' = IF r = "Ok" THEN [presenting EXCEPT ![current_frame] = TRUE]
                                 ELSE presenting
    /\ UNCHANGED <<current_frame, fences, in_flight, swapchain, fresh,
                 destroyed, vk_log, image_index>>
    /\ UNCHANGED <<families, create_info, handles>>
    /\ UNCHANGED <<storeVars, newVars, chooseVars, loopVars>>

\* self.current_frame = (self.current_frame + 1) % MAX_FRAMES_IN_FLIGHT
NextFrameStays(frame) == frame
NextFrame(frame) == (frame + 1) % MAX_FRAMES_IN_FLIGHT

Advance ==
    /\ tpc = "advance"
    /\ current_frame' = NextFrame(current_frame)
    /\ tpc' = "idle"
    /\ ops' = Append(ops, Op("advance", current_frame, -1, "Ok"))
    /\ UNCHANGED <<fences, in_flight, swapchain, fresh, destroyed, vk_log,
                 image_index, exited>>
    /\ UNCHANGED <<families, create_info, handles, presenting>>
    /\ UNCHANGED <<storeVars, newVars, chooseVars, loopVars>>

\* The GPU finishes the work submitted with a slot's fence and signals it.
GpuFinish(slot) ==
    /\ fences[slot] = "pending"
    /\ ~exited
    /\ fences' = [fences EXCEPT ![slot] = "signaled"]
    /\ in_flight' = [in_flight EXCEPT ![slot] = @ - 1]
    /\ UNCHANGED <<current_frame, swapchain, fresh, destroyed, vk_log, tpc,
                 image_index, ops, exited>>
    /\ UNCHANGED <<families, create_info, handles, presenting>>
    /\ UNCHANGED <<storeVars, newVars, chooseVars, loopVars>>

\* The present queue completes the presentations queued with a slot's
\* render-finished semaphore; they wait on that semaphore, which the slot's
\* submission signals when the GPU has finished it.
PresentDone(slot) ==
    /\ presenting[slot]
    /\ fences[slot] # "pending"
    /\ ~exited
    /\ presenting' = [presenting EXCEPT ![slot] = FALSE]
    /\ UNCHANGED <<current_frame, fences, in_flight, swapchain, fresh, destroyed,
                 vk_log, tpc, image_index, ops, exited, families, create_info,
                 handles>>
    /\ UNCHANGED <<storeVars, newVars, chooseVars, loopVars>>

\* When queue_wait_idle(present_queue) returns: nothing queued on the present
\* queue is outstanding. Both queues are get_device_queue(family, 0), so the
\* graphics submissions are on that queue exactly when the families are equal.
PresentQueueIdleAlways == TRUE
PresentQueueIdle ==
    /\ \A s \in Slots : ~presenting[s]
    /\ (families.graphics = families.present) => \A s \in Slots : fences[s] # "pending"

\* The recreate arm: self.device.queue_wait_idle(self.present_queue) returns
\* once every presentation queued so far, and the submission each waits on,
\* has completed.
QueueWaitIdle(ok) ==
    /\ tpc = "queue_wait_idle"
    /\ IF ok
         THEN /\ PresentQueueIdle
              /\ tpc' = "surface_information"
              /\ ops' = Append(ops, Op("queue_wait_idle", -1, -1, "Ok"))
              /\ exited' = exited
         ELSE ExitTick("queue_wait_idle", -1)
    /\ UNCHANGED <<current_frame, fences, in_flight, swapchain, fresh,
                 destroyed, vk_log, image_index>>
    /\ UNCHANGED <<families, create_info, handles, presenting>>
    /\ UNCHANGED <<storeVars, newVars, chooseVars, loopVars>>

\* surface_information(..): capabilities, present modes and formats, re-queried.
SurfaceInformation(ok) ==
    /\ tpc = "surface_information"
    /\ IF ok
         THEN /\ tpc' = "cleanup_swapchain"
              /\ ops' = Append(ops, Op("surface_information", -1, -1, "Ok"))
              /\ exited' = exited
         ELSE ExitTick("surface_information", -1)
    /\ UNCHANGED <<current_frame, fences, in_flight, swapchain, fresh,
                 destroyed, vk_log, image_index>>
    /\ UNCHANGED <<families, create_info, handles, presenting>>
    /\ UNCHANGED <<storeVars, newVars, chooseVars, loopVars>>

\* cleanup_swapchain(..) of the handles the Renderer holds.
CleanupSwapchain ==
    /\ tpc = "cleanup_swapchain"
    /\ destroyed' = destroyed \cup {swapchain.gen}
    /\ vk_log' = vk_log \o cleanup_swapchain(Held)
    /\ tpc' = "create_swapchain"
    /\ ops' = Append(ops, Op("cleanup_swapchain", -1, -1, "Ok"))
    /\ UNCHANGED <<current_frame, fences, in_flight, swapchain, fresh,
                 image_index, exited>>
    /\ UNCHANGED <<families, create_info, handles, presenting>>
    /\ UNCHANGED <<storeVars, newVars, chooseVars, loopVars>>

\* The sharing mode and queue family indices create_swapchain puts into the
\* SwapchainCreateInfoKHR of the context gen.
SwapchainCreateInfoExclusive(gen, graphics_family_index, present_family_index) ==
    [gen |-> gen, image_sharing_mode |-> "EXCLUSIVE", queue_family_indices |-> <<>>]
SwapchainCreateInfo(gen, graphics_family_index, present_family_index) ==
    IF graphics_family_index # present_family_index
      THEN [gen |-> gen, image_sharing_mode |-> "CONCURRENT",
            queue_family_indices |-> <<graphics_family_index, present_family_index>>]
      ELSE [gen |-> gen, image_sharing_mode |-> "EXCLUSIVE",
            queue_family_indices |-> <<>>]

\* The shader modules the recreate arm hands to create_swapchain:
\* &self.shader_modules, those Renderer::new created.
RebuildShaderModulesFromStore ==
    [k \in 1..Cardinality({i \in DOMAIN shader_names :
                              /\ shader_names[i] \in DOMAIN resources
                              /\ is_loaded(resources[shader_names[i]])}) |->
        shader_names[k]]
RebuildShaderModules == shader_modules

\* create_swapchain(..).unwrap_or_log("Failed to recreate swapchain"): the
\* new context, of images_n images, is held in locals.
CreateSwapchain(ok, images_n) ==
    /\ tpc = "create_swapchain"
    /\ create_info' = SwapchainCreateInfo(swapchain.gen + 1, families.graphics,
                                          families.present)
    /\ IF ok
         THEN /\ fresh' = [gen |-> swapchain.gen + 1, images |-> images_n]
              /\ vk_log' = vk_log \o SwapchainCreates(swapchain.gen + 1, images_n)
              /\ pipelines' = create_graphics_pipelines(RebuildShaderModules)
              /\ tpc' = "store"
              /\ ops' = Append(ops, Op("create_swapchain", -1, -1, "Ok"))
              /\ exited' = exited
         ELSE ExitTick("create_swapchain", -1) /\ UNCHANGED <<fresh, vk_log, pipelines>>
    /\ UNCHANGED <<current_frame, fences, in_flight, swapchain, destroyed,
                 image_index>>
    /\ UNCHANGED <<families, handles, presenting>>
    /\ UNCHANGED <<shader_names, cidx, cpc, cacted, shader_modules, built, cres, game>>
    /\ UNCHANGED <<storeVars, chooseVars, loopVars>>

\* The six assignments before self.swapchain = swapchain: what the Renderer
\* holds after them, given what it held and the tuple create_swapchain returned.
StoreKeepsCommandBuffers(held, new) ==
    [image_views |-> new.image_views,
     pipeline_layout |-> new.pipeline_layout,
     render_pass |-> new.render_pass,
     pipeline |-> new.pipeline,
     swapchain_framebuffers |-> new.swapchain_framebuffers,
     command_buffers |-> held.command_buffers]
Store(held, new) ==
    [image_views |-> new.image_views,
     pipeline_layout |-> new.pipeline_layout,
     render_pass |-> new.render_pass,
     pipeline |-> new.pipeline,
     swapchain_framebuffers |-> new.swapchain_framebuffers,
     command_buffers |-> new.command_buffers]

\* self.image_views = image_views; .. self.swapchain = swapchain; return;
StoreSwapchain ==
    /\ tpc = "store"
    /\ swapchain' = fresh
    /\ handles' = Store(handles, create_swapchain(fresh.gen, fresh.images))
    /\ tpc' = "idle"
    /\ ops' = Append(ops, Op("store", -1, -1, "Ok"))
    /\ UNCHANGED <<current_frame, fences, in_flight, fresh, destroyed, vk_log,
                 image_index, exited>>
    /\ UNCHANGED <<families, create_info, presenting>>
    /\ UNCHANGED <<storeVars, newVars, chooseVars, loopVars>>

\* ------------------------------------------------- choose_swap_* functions

\* vk::PresentModeKHR values a surface may report.
PresentModes == {"FIFO", "MAILBOX", "IMMEDIATE", "FIFO_RELAXED"}

\* The for loop of choose_swap_present_mode over what is left of the list,
\* best_mode being the local of that name.
RECURSIVE PresentModeLoop(_, _)
PresentModeLoop(modes, best_mode) ==
    IF modes = <<>> THEN best_mode
    ELSE IF Head(modes) = "MAILBOX" THEN Head(modes)
    ELSE IF Head(modes) = "IMMEDIATE" THEN PresentModeLoop(Tail(modes), Head(modes))
    ELSE PresentModeLoop(Tail(modes), best_mode)

RECURSIVE FirstPreferredMode(_)
FirstPreferredMode(modes) ==
    IF modes = <<>> THEN "FIFO"
    ELSE IF Head(modes) \in {"MAILBOX", "IMMEDIATE"} THEN Head(modes)
    ELSE FirstPreferredMode(Tail(modes))

choose_swap_present_mode(available_present_modes) ==
    PresentModeLoop(available_present_modes, "FIFO")

\* vk::SurfaceFormatKHR values a surface may report.
SurfaceFormat(format, color_space) == [format |-> format, color_space |-> color_space]
SurfaceFormats ==
    { SurfaceFormat(f, c) : f \in {"UNDEFINED", "B8G8R8A8_UNORM", "R8G8B8A8_UNORM"},
                            c \in {"SRGB_NONLINEAR", "EXTENDED_SRGB_LINEAR_EXT"} }

\* The for loop of choose_swap_surface_format over what is left of the list;
\* falling out of it gives available_formats[0], here first.
RECURSIVE SurfaceFormatLoop(_, _)
SurfaceFormatLoop(formats, first) ==
    IF formats = <<>> THEN first
    ELSE IF /\ Head(formats).format = "B8G8R8A8_UNORM"
            /\ Head(formats).color_space = "SRGB_NONLINEAR"
         THEN Head(formats)
    ELSE SurfaceFormatLoop(Tail(formats), first)

\* available_formats[0] of an empty Vec panics.
choose_swap_surface_formatFirst(available_formats) ==
    IF available_formats = <<>> THEN Panic("index out of bounds")
    ELSE available_formats[1]
choose_swap_surface_format(available_formats) ==
    IF Len(available_formats) = 1 /\ available_formats[1].format = "UNDEFINED"
      THEN SurfaceFormat("B8G8R8A8_UNORM", "SRGB_NONLINEAR")
    ELSE IF available_formats = <<>> THEN Panic("index out of bounds")
    ELSE SurfaceFormatLoop(available_formats, available_formats[1])

\* u32::max_value(), in current_extent the "any size" value: the largest
\* value a u32 holds. The model's integers end at 2^31 - 1, so that is the
\* largest value a component takes here.
U32Max == 2147483647

Extent2D(width, height) == [width |-> width, height |-> height]

\* u32::min and u32::max (Ord).
Min(a, b) == IF a <= b THEN a ELSE b
Max(a, b) == IF a >= b THEN a ELSE b

\* let (width, height) = window_size.into(): a LogicalSize component is an
\* f64, here a count of half units; the conversion rounds it to the nearest
\* u32, halves upwards.
RoundToU32(halves) == Min((halves + 1) \div 2, U32Max)

choose_swap_extentNoClamp(window_size, capabilites) ==
    IF capabilites.current_extent.width # U32Max
      THEN capabilites.current_extent
      ELSE Extent2D(RoundToU32(window_size.width), RoundToU32(window_size.height))
choose_swap_extent(window_size, capabilites) ==
    IF capabilites.current_extent.width # U32Max
      THEN capabilites.current_extent
      ELSE Extent2D(
             Max(capabilites.min_image_extent.width,
                 Min(capabilites.max_image_extent.width,
                     RoundToU32(window_size.width))),
             Max(capabilites.min_image_extent.height,
                 Min(capabilites.max_image_extent.height,
                     RoundToU32(window_size.height))))

\* Lists of at most n elements of S.
SeqsUpTo(S, n) == UNION { [1..k -> S] : k \in 0..n }

\* Window sizes, in half units: 10, 63.5, 64, 600, 799.5, 800, 4096, 9000.
WindowHalves == {20, 127, 128, 1200, 1599, 1600, 8192, 18000}

\* The surface capabilities looked at: the current extent is the "any size"
\* value or a concrete one.
Capabilities ==
    [ current_extent : {Extent2D(U32Max, U32Max), Extent2D(800, 600), Extent2D(10, 9000)},
      min_image_extent : {Extent2D(1, 1), Extent2D(64, 64), Extent2D(4096, 4096)},
      max_image_extent : {Extent2D(64, 64), Extent2D(4096, 4096)} ]

\* Some(value)
Chosen(value) == [tag |-> "Some", value |-> value]

\* create_swapchain's image_count for the surface capabilities.
image_countUncapped(capabilites) == capabilites.min_image_count + 1
image_count(capabilites) ==
    LET count == capabilites.min_image_count + 1 IN
    IF capabilites.max_image_count > 0 /\ count > capabilites.max_image_count
      THEN capabilites.max_image_count
      ELSE count

\* Vec::sort of a Vec of two u32.
Sort2(v) == IF v[1] <= v[2] THEN v ELSE <<v[2], v[1]>>

\* Vec::dedup: every element equal to the one before it is removed.
RECURSIVE Dedup(_)
Dedup(v) ==
    IF Len(v) <= 1 THEN v
    ELSE LET front == Dedup(SubSeq(v, 1, Len(v) - 1)) IN
         IF v[Len(v)] = v[Len(v) - 1] THEN front ELSE Append(front, v[Len(v)])

\* The DeviceQueueCreateInfos Renderer::new hands to create_device: one per
\* element of vec![graphics, present] after sort() and dedup(), each asking
\* for one queue of priority 1.0.
device_queue_create_infoNoDedup(graphics_family_index, present_family_index) ==
    LET queue_family_indices == Sort2(<<graphics_family_index, present_family_index>>) IN
    [i \in 1..Len(queue_family_indices) |->
        [queue_family_index |-> queue_family_indices[i], queue_priorities |-> <<1>>]]
device_queue_create_info(graphics_family_index, present_family_index) ==
    LET queue_family_indices ==
            Dedup(Sort2(<<graphics_family_index, present_family_index>>)) IN
    [i \in 1..Len(queue_family_indices) |->
        [queue_family_index |-> queue_family_indices[i], queue_priorities |-> <<1>>]]

\* A physical device as the selection sees it: what
\* enumerate_device_extension_properties gives ("Err", or whether
\* DEVICE_EXTENSIONS are all in it: "ok" / "missing"), what surface_information
\* gives ("Err" or "ok", with the numbers of formats and present modes), and
\* per queue family whether it has the GRAPHICS flag and surface support.
PhysicalDevice(extensions, surface, formats, present_modes, queue_families) ==
    [extensions |-> extensions, surface |-> surface, formats |-> formats,
     present_modes |-> present_modes, queue_families |-> queue_families]

QueueFamilyProperties == [graphics : BOOLEAN, present : BOOLEAN]

\* The devices looked at: one for each way the closure returns before it looks
\* at the queue families, and every device that gets that far.
PhysicalDevices ==
    { PhysicalDevice("Err", "ok", 1, 1, <<>>),
      PhysicalDevice("missing", "ok", 1, 1, <<>>),
      PhysicalDevice("ok", "Err", 1, 1, <<>>),
      PhysicalDevice("ok", "ok", 0, 1, <<>>),
      PhysicalDevice("ok", "ok", 1, 0, <<>>) }
      \cup { PhysicalDevice("ok", "ok", 1, 1, f) :
                f \in [1..MaxFamilies -> QueueFamilyProperties] }

None == [tag |-> "None"]

\* .filter_map(..).nth(0) over the families: the index (from 0) of the first
\* family with the flag, if any.
RECURSIVE FirstFamily(_, _, _)
FirstFamily(queue_families, flag, i) ==
    IF i > Len(queue_families) THEN None
    ELSE IF queue_families[i][flag] THEN Chosen(i - 1)
    ELSE FirstFamily(queue_families, flag, i + 1)

\* The closure given to filter_map for one physical device: None (skipped),
\* Some(Err(..)) or Some(Ok(device and its two family indices)).
Candidate(devices, i) ==
    LET d == devices[i]
        graphics == FirstFamily(d.queue_families, "graphics", 1)
        present == FirstFamily(d.queue_families, "present", 1)
    IN  IF d.extensions = "Err" THEN Chosen([tag |-> "Err"])
        ELSE IF d.extensions = "missing" THEN None
        ELSE IF d.surface = "Err" THEN Chosen([tag |-> "Err"])
        ELSE IF d.formats = 0 \/ d.present_modes = 0 THEN None
        ELSE IF graphics.tag = "Some" /\ present.tag = "Some"
               THEN Chosen([tag |-> "Ok", physical_device |-> i,
                            graphics_family_index |-> graphics.value,
                            present_family_index |-> present.value])
               ELSE None

\* .filter_map(closure).nth(0): the first Some the closure yields.
RECURSIVE FirstCandidate(_, _)
FirstCandidate(devices, i) ==
    IF i > Len(devices) THEN None
    ELSE IF Candidate(devices, i).tag = "Some" THEN Candidate(devices, i)
    ELSE FirstCandidate(devices, i + 1)

PhysicalDeviceError(err) == [tag |-> "Err", error |-> "PhysicalDeviceError", err |-> err]

\* .nth(0).ok_or(PhysicalDeviceError Right(..))?.map_err(PhysicalDeviceError Left)?
select_physical_device(devices) ==
    LET first == FirstCandidate(devices, 1) IN
    IF first.tag = "None" THEN PhysicalDeviceError("Failed to find suitable device")
    ELSE IF first.value.tag = "Err" THEN PhysicalDeviceError("vk")
    ELSE first.value

\* The characters of a driver message: a letter, a space, a line feed.
Chars == {"a", " ", "\n"}

\* char::is_whitespace, on those characters.
is_whitespace(c) == c \in {" ", "\n"}

\* str::trim_start, str::trim_end and str::trim: the text without its leading
\* and trailing whitespace.
RECURSIVE trim_start(_)
trim_start(text) ==
    IF text # <<>> /\ is_whitespace(Head(text))
      THEN trim_start(Tail(text))
      ELSE text

RECURSIVE trim_end(_)
trim_end(text) ==
    IF text # <<>> /\ is_whitespace(text[Len(text)])
      THEN trim_end(SubSeq(text, 1, Len(text) - 1))
      ELSE text

trim(text) == trim_end(trim_start(text))

\* vk::DebugUtilsMessageSeverityFlagsEXT: the four bits, and any other value.
Severities == {"VERBOSE", "INFO", "WARNING", "ERROR", "OTHER"}

\* vulkan_debug_callback: what the log macros are handed (level and the text
\* after "Vulkan: "), if anything, and the value returned (vk::FALSE).
vulkan_debug_callback(message_severity, p_message) ==
    LET message == trim(p_message) IN
    [logged |->
        CASE message_severity = "VERBOSE" -> <<[level |-> "info", text |-> message]>>
          [] message_severity = "WARNING" -> <<[level |-> "warn", text |-> message]>>
          [] message_severity = "ERROR" -> <<[level |-> "error", text |-> message]>>
          [] message_severity = "INFO" -> <<[level |-> "info", text |-> message]>>
          [] OTHER -> <<>>,
     result |-> FALSE]

\* The calls of the pure functions looked at.
Queries ==
    { [fn |-> "choose_swap_present_mode", available_present_modes |-> m] :
          m \in SeqsUpTo(PresentModes, MaxModes) }
      \cup { [fn |-> "choose_swap_surface_format", available_formats |-> f] :
                f \in SeqsUpTo(SurfaceFormats, MaxFormats) }
      \cup { [fn |-> "choose_swap_extent", window_size |-> Extent2D(w, h),
              capabilites |-> c] :
                w \in WindowHalves, h \in WindowHalves, c \in Capabilities }
      \cup { [fn |-> "image_count",
              capabilites |-> [min_image_count |-> lo, max_image_count |-> hi]] :
                lo \in 0..MaxImageCount, hi \in 0..(MaxImageCount + 1) }
      \cup { [fn |-> "device_queue_create_info", graphics_family_index |-> g,
              present_family_index |-> p] :
                g \in QueueFamilies, p \in QueueFamilies }
      \cup { [fn |-> "select_physical_device", devices |-> d] :
                d \in SeqsUpTo(PhysicalDevices, MaxDevices) }
      \cup { [fn |-> "vulkan_debug_callback", message_severity |-> v,
              p_message |-> m] :
                v \in Severities, m \in SeqsUpTo(Chars, MaxMessage) }

ChooseSwapPresentMode ==
    /\ query.fn = "choose_swap_present_mode"
    /\ choice.tag = "None"
    /\ choice' = Chosen(choose_swap_present_mode(query.available_present_modes))
    /\ UNCHANGED <<query, storeVars, newVars, frameVars, loopVars>>

ChooseSwapSurfaceFormat ==
    /\ query.fn = "choose_swap_surface_format"
    /\ choice.tag = "None"
    /\ choice' = Chosen(choose_swap_surface_format(query.available_formats))
    /\ UNCHANGED <<query, storeVars, newVars, frameVars, loopVars>>

ChooseSwapExtent ==
    /\ query.fn = "choose_swap_extent"
    /\ choice.tag = "None"
    /\ choice' = Chosen(choose_swap_extent(query.window_size, query.capabilites))
    /\ UNCHANGED <<query, storeVars, newVars, frameVars, loopVars>>

ImageCount ==
    /\ query.fn = "image_count"
    /\ choice.tag = "None"
    /\ choice' = Chosen(image_count(query.capabilites))
    /\ UNCHANGED <<query, storeVars, newVars, frameVars, loopVars>>

DeviceQueueCreateInfo ==
    /\ query.fn = "device_queue_create_info"
    /\ choice.tag = "None"
    /\ choice' = Chosen(device_queue_create_info(query.graphics_family_index,
                                                 query.present_family_index))
    /\ UNCHANGED <<query, storeVars, newVars, frameVars, loopVars>>

SelectPhysicalDevice ==
    /\ query.fn = "select_physical_device"
    /\ choice.tag = "None"
    /\ choice' = Chosen(select_physical_device(query.devices))
    /\ UNCHANGED <<query, storeVars, newVars, frameVars, loopVars>>

VulkanDebugCallback ==
    /\ query.fn = "vulkan_debug_callback"
    /\ choice.tag = "None"
    /\ choice' = Chosen(vulkan_debug_callback(query.message_severity, query.p_message))
    /\ UNCHANGED <<query, storeVars, newVars, frameVars, loopVars>>

\* ------------------------------------------------------------ Drop

\* What Drop destroys once the present queue is idle, in order.
DropDestroysDeviceFirst(created, ctx) ==
    <<Ev("destroy", "device", -1, -1)>>
      \o cleanup_swapchain(ctx)
      \o <<Ev("destroy", "instance", -1, -1)>>
DropDestroysVertexModulesOnly(created, ctx) ==
    Each("destroy", "image_available_semaphore", -1, MAX_FRAMES_IN_FLIGHT)
      \o Each("destroy", "render_finished_semaphore", -1, MAX_FRAMES_IN_FLIGHT)
      \o Each("destroy", "in_flight_fence", -1, MAX_FRAMES_IN_FLIGHT)
      \o cleanup_swapchain(ctx)
      \o <<Ev("destroy", "command_pool", -1, -1)>>
      \o Each("destroy", "shader_module", -1,
              Cardinality({k \in DOMAIN created : created[k].obj = "shader_module"}) \div 2)
      \o <<Ev("destroy", "surface", -1, -1), Ev("destroy", "device", -1, -1)>>
      \o (IF \E k \in DOMAIN created : created[k].obj = "debug_utils_messenger"
            THEN <<Ev("destroy", "debug_utils_messenger", -1, -1)>> ELSE <<>>)
      \o <<Ev("destroy", "instance", -1, -1)>>
DropDestroys(created, ctx) ==
    Each("destroy", "image_available_semaphore", -1, MAX_FRAMES_IN_FLIGHT)
      \o Each("destroy", "render_finished_semaphore", -1, MAX_FRAMES_IN_FLIGHT)
      \o Each("destroy", "in_flight_fence", -1, MAX_FRAMES_IN_FLIGHT)
      \o cleanup_swapchain(ctx)
      \o <<Ev("destroy", "command_pool", -1, -1)>>
      \o Each("destroy", "shader_module", -1,
              Cardinality({k \in DOMAIN created : created[k].obj = "shader_module"}))
      \o <<Ev("destroy", "surface", -1, -1), Ev("destroy", "device", -1, -1)>>
      \o (IF \E k \in DOMAIN created : created[k].obj = "debug_utils_messenger"
            THEN <<Ev("destroy", "debug_utils_messenger", -1, -1)>> ELSE <<>>)
      \o <<Ev("destroy", "instance", -1, -1)>>

\* Drop for Renderer, run when the Game (and with it the dispatcher that owns
\* the Renderer) is dropped after Game::run left its loop, so between ticks:
\* queue_wait_idle(present_queue).unwrap_or_log(..), then the destroy calls.
\* Its trace replaces the last tick's.
Drop(ok) ==
    /\ tpc = "idle"
    /\ IF ok
         THEN /\ PresentQueueIdle
              /\ vk_log' = vk_log \o DropDestroys(vk_log, Held)
              /\ destroyed' = destroyed \cup {swapchain.gen}
              /\ tpc' = "dropped"
              /\ ops' = <<Op("drop", -1, -1, "Ok")>>
              /\ exited' = exited
         ELSE /\ tpc' = "exited"
              /\ exited' = TRUE
              /\ ops' = <<Op("drop", -1, -1, "Err")>>
              /\ UNCHANGED <<vk_log, destroyed>>
    /\ UNCHANGED <<current_frame, fences, in_flight, swapchain, fresh, image_index>>
    /\ UNCHANGED <<families, create_info, handles, presenting>>
    /\ UNCHANGED <<storeVars, newVars, chooseVars, loopVars>>

\* ------------------------------------------------------------- Game::run

\* The window events looked at: WindowEvent::CloseRequested, and any other.
WindowEvents == {"CloseRequested", "Other"}

\* The dispatcher's systems in the order it runs them: "renderer" was added
\* with the dependency "event_handler".
SystemsRendererFirst == <<"renderer", "event_handler">>
Systems == <<"event_handler", "renderer">>

\* The position of Game::run once one more system has returned.
AfterSystem(done) == IF Len(done) = Len(Systems) THEN "maintain" ELSE "dispatch"

\* while self.world.read_resource::<Running>().0 { .. } info!("Exiting...")
LoopCheck ==
    /\ lpc = "check"
    /\ lpc' = IF running THEN "poll_events" ELSE "left"
    /\ UNCHANGED <<running, events, ran>>
    /\ UNCHANGED <<storeVars, newVars, frameVars, chooseVars>>

\* self.events_loop.poll_events(|event| event_send.send(event).unwrap())
PollEvents(polled) ==
    /\ lpc = "poll_events"
    /\ events' = events \o polled
    /\ lpc' = "dispatch"
    /\ UNCHANGED <<running, ran>>
    /\ UNCHANGED <<storeVars, newVars, frameVars, chooseVars>>

\* EventHandler::run: receives every event of the channel; CloseRequested
\* sets running.0 = false.
EventHandlerRun ==
    /\ lpc = "dispatch"
    /\ Systems[Len(ran) + 1] = "event_handler"
    /\ running' = IF \E k \in DOMAIN events : events[k] = "CloseRequested"
                    THEN FALSE
                    ELSE running
    /\ events' = <<>>
    /\ ran' = Append(ran, "event_handler")
    /\ lpc' = AfterSystem(ran')
    /\ UNCHANGED <<storeVars, newVars, frameVars, chooseVars>>

\* The dispatcher calls Renderer::run: no step of this tick has been taken.
RendererCall ==
    /\ lpc = "dispatch"
    /\ Systems[Len(ran) + 1] = "renderer"
    /\ lpc' = "tick"
    /\ ops' = <<>>
    /\ UNCHANGED <<running, events, ran>>
    /\ UNCHANGED <<current_frame, fences, swapchain, fresh, destroyed, tpc,
                 image_index, exited, in_flight, vk_log>>
    /\ UNCHANGED <<families, create_info, handles, presenting>>
    /\ UNCHANGED <<storeVars, newVars, chooseVars>>

\* Inside Renderer::run, called by the dispatcher and not yet returned.
InTick == lpc = "tick" /\ (tpc # "idle" \/ ops = <<>>)

\* Renderer::run returns to the dispatcher.
RendererReturn ==
    /\ lpc = "tick"
    /\ tpc = "idle"
    /\ ops # <<>>
    /\ ran' = Append(ran, "renderer")
    /\ lpc' = AfterSystem(ran')
    /\ UNCHANGED <<running, events>>
    /\ UNCHANGED <<storeVars, newVars, frameVars, chooseVars>>

\* self.world.maintain(): the end of the loop body.
Maintain ==
    /\ lpc = "maintain"
    /\ lpc' = "check"
    /\ ran' = <<>>
    /\ UNCHANGED <<running, events>>
    /\ UNCHANGED <<storeVars, newVars, frameVars, chooseVars>>

\* ---------------------------------------------------------- specification

\* Game::new adds Running(true) to the world and creates the event channel;
\* Game::run has not been called.
LoopIdle == running = TRUE /\ events = <<>> /\ lpc = "check" /\ ran = <<>>

FrameIdle ==
    /\ current_frame = 0
    /\ fences = [s \in Slots |-> FenceCreated]
    /\ swapchain = [gen |-> 0, images |-> 1]
    /\ fresh = [gen |-> 0, images |-> 1]
    /\ destroyed = {}
    /\ tpc = "idle"
    /\ image_index = 0
    /\ ops = <<>>
    /\ exited = FALSE
    /\ in_flight = [s \in Slots |-> 0]
    /\ vk_log = <<>>
    /\ families = [graphics |-> 0, present |-> 0]
    /\ create_info = SwapchainCreateInfo(0, 0, 0)
    /\ handles = create_swapchain(0, 1)
    /\ presenting = [s \in Slots |-> FALSE]

\* No choose_swap_* call is being looked at.
NoQuery == [fn |-> "none"]
NoChoice == [tag |-> "None"]
ChooseIdle == query = NoQuery /\ choice = NoChoice

Init ==
    /\ FrameIdle
    /\ resources = [n \in {} |-> Loading]
    /\ poisoned = FALSE
    /\ lock_owner = 0
    /\ reg = NoReg
    /\ nregs = 0
    /\ tasks = <<>>
    /\ log = {}
    /\ peeked = NoPeek
    /\ LoopIdle
    /\ arcs = <<>>
    /\ entry = [n \in {} |-> 0]
    /\ snapshot = 0
    /\ shader_names \in ShaderLists
    /\ cidx = 1
    /\ cpc = "start"
    /\ cacted = NoActed
    /\ shader_modules = <<>>
    /\ built = FALSE
    /\ cres = NoResult
    /\ game = NoResult
    /\ pipelines = <<>>
    /\ ChooseIdle

Next ==
    \/ \E name \in Names, load \in Loaders : AddResourceInsert(name, load)
    \/ AddResourceSpawn
    \/ \E i \in DOMAIN tasks : TaskLoad(i)
    \/ \E i \in DOMAIN tasks : TaskStore(i)
    \/ \E name \in Names : Peek(name)
    \/ \E validation \in BOOLEAN : \E r \in StartResults(validation) :
          RendererStart(validation, r)
    \/ RendererPoll
    \/ RendererSleep
    \/ \E ok \in BOOLEAN : RendererResolve(ok)
    \/ \E ok \in BOOLEAN : RendererCommandPool(ok)
    \/ \E r \in CreateSwapchainResults : RendererCreateSwapchain(r)
    \/ \E ok \in BOOLEAN : RendererSync(ok)
    \/ GameNew

Spec == Init /\ [][Next]_vars

\* A Renderer that Renderer::new returned, before its first tick: the shader
\* "normal" was registered and loaded, and the first swapchain has images_n images.
RendererReady ==
    /\ resources = [n \in {"normal"} |-> Loaded(ShaderRes)]
    /\ poisoned = FALSE
    /\ lock_owner = 0
    /\ reg = NoReg
    /\ nregs = 1
    /\ tasks = <<[name |-> "normal",
                  load |-> [kind |-> "Ok", res |-> ShaderRes, err |-> ""],
                  pc |-> "done"]>>
    /\ log = Info("normal")
    /\ peeked = NoPeek
    /\ LoopIdle
    /\ arcs = <<Loaded(ShaderRes)>>
    /\ entry = [n \in {"normal"} |-> 1]
    /\ snapshot = 0
    /\ shader_names = <<"normal">>
    /\ cidx = 1
    /\ cpc = "done"
    /\ cacted = [name |-> "normal", state |-> Loaded(ShaderRes)]
    /\ shader_modules = <<"normal">>
    /\ built = TRUE
    /\ cres = OkRenderer
    /\ game = OkGame
    /\ pipelines = create_graphics_pipelines(<<"normal">>)
    /\ current_frame = 0
    /\ fences = [s \in Slots |-> FenceCreated]
    /\ \E images_n \in 1..MaxImages, validation \in BOOLEAN :
          /\ swapchain = [gen |-> 0, images |-> images_n]
          /\ fresh = [gen |-> 0, images |-> images_n]
          /\ handles = create_swapchain(0, images_n)
          /\ vk_log = NewCreatesDevice(validation, Len(shader_modules))
                         \o SwapchainCreates(0, images_n) \o NewCreatesSync
    /\ \E g \in QueueFamilies, p \in QueueFamilies :
          /\ families = [graphics |-> g, present |-> p]
          /\ create_info = SwapchainCreateInfo(0, g, p)
    /\ presenting = [s \in Slots |-> FALSE]
    /\ in_flight = [s \in Slots |-> 0]
    /\ destroyed = {}
    /\ tpc = "idle"
    /\ image_index = 0
    /\ ops = <<>>
    /\ exited = FALSE

FrameInit == RendererReady /\ ChooseIdle

FrameNext ==
    \/ \E ok \in BOOLEAN : WaitForFences(ok)
    \/ \E r \in AcquireResults : AcquireNextImage(r)
    \/ \E ok \in BOOLEAN : ResetFences(ok)
    \/ \E ok \in BOOLEAN : QueueSubmit(ok)
    \/ \E r \in PresentResults : QueuePresent(r)
    \/ Advance
    \/ \E slot \in Slots : GpuFinish(slot)
    \/ \E slot \in Slots : PresentDone(slot)
    \/ \E ok \in BOOLEAN : QueueWaitIdle(ok)
    \/ \E ok \in BOOLEAN : SurfaceInformation(ok)
    \/ CleanupSwapchain
    \/ \E ok \in BOOLEAN, images_n \in 1..MaxImages : CreateSwapchain(ok, images_n)
    \/ StoreSwapchain
    \/ \E ok \in BOOLEAN : Drop(ok)

FrameSpec == FrameInit /\ [][FrameNext]_vars

\* The successful steps of one call of Renderer::run.
TickProceeds ==
    \/ WaitForFences(TRUE)
    \/ \E r \in AcquireResults : AcquireNextImage(r)
    \/ ResetFences(TRUE)
    \/ QueueSubmit(TRUE)
    \/ \E r \in PresentResults : QueuePresent(r)
    \/ Advance
    \/ QueueWaitIdle(TRUE)
    \/ SurfaceInformation(TRUE)
    \/ CleanupSwapchain
    \/ \E images_n \in 1..MaxImages : CreateSwapchain(TRUE, images_n)
    \/ StoreSwapchain

\* The running renderer next to the resource store: while the ticks run, the
\* engine's user registers the shader again and peeks, and the loader tasks
\* run.
TickStoreInit ==
    /\ FrameInit
    /\ swapchain.images = 1
    /\ families = [graphics |-> 0, present |-> 0]
    /\ \A i \in DOMAIN vk_log : vk_log[i].obj # "debug_utils_messenger"

StoreNext ==
    \/ \E load \in Loaders : AddResourceInsert("normal", load)
    \/ AddResourceSpawn
    \/ \E i \in DOMAIN tasks : TaskLoad(i)
    \/ \E i \in DOMAIN tasks : TaskStore(i)
    \/ \E name \in Names : Peek(name)

TickStoreNext == FrameNext \/ StoreNext

TickStoreSpec == TickStoreInit /\ [][TickStoreNext]_vars

\* Game::run on the constructed game: the loop, the ticks the dispatcher
\* calls, the GPU, and the drop of the game once run has returned.
LoopInit == TickStoreInit

LoopNext ==
    \/ LoopCheck
    \/ \E polled \in SeqsUpTo(WindowEvents, MaxEvents) : PollEvents(polled)
    \/ EventHandlerRun
    \/ RendererCall
    \/ InTick /\ \E ok \in BOOLEAN : WaitForFences(ok)
    \/ InTick /\ \E r \in AcquireResults : AcquireNextImage(r)
    \/ InTick /\ \E ok \in BOOLEAN : ResetFences(ok)
    \/ InTick /\ \E ok \in BOOLEAN : QueueSubmit(ok)
    \/ InTick /\ \E r \in PresentResults : QueuePresent(r)
    \/ InTick /\ Advance
    \/ InTick /\ \E ok \in BOOLEAN : QueueWaitIdle(ok)
    \/ InTick /\ \E ok \in BOOLEAN : SurfaceInformation(ok)
    \/ InTick /\ CleanupSwapchain
    \/ InTick /\ \E ok \in BOOLEAN, images_n \in 1..MaxImages : CreateSwapchain(ok, images_n)
    \/ InTick /\ StoreSwapchain
    \/ RendererReturn
    \/ Maintain
    \/ \E slot \in Slots : GpuFinish(slot)
    \/ \E slot \in Slots : PresentDone(slot)
    \/ lpc = "left" /\ \E ok \in BOOLEAN : Drop(ok)

LoopSpec == LoopInit /\ [][LoopNext]_vars

\* The GPU finishes every submission it was given.
FrameLiveSpec ==
    /\ FrameInit
    /\ [][FrameNext]_vars
    /\ \A slot \in Slots : WF_vars(GpuFinish(slot))

\* The selections of Renderer::new and create_swapchain, each on one set of
\* data the driver reports; the rest of the state is that of one Renderer.
ChooseInit ==
    /\ RendererReady
    /\ swapchain.images = 1
    /\ families = [graphics |-> 0, present |-> 0]
    /\ \A i \in DOMAIN vk_log : vk_log[i].obj # "debug_utils_messenger"
    /\ query \in Queries
    /\ choice = NoChoice

ChooseNext ==
    \/ ChooseSwapPresentMode
    \/ ChooseSwapSurfaceFormat
    \/ ChooseSwapExtent
    \/ ImageCount
    \/ DeviceQueueCreateInfo
    \/ SelectPhysicalDevice
    \/ VulkanDebugCallback

ChooseSpec == ChooseInit /\ [][ChooseNext]_vars

\* The background tasks, the spawn of a started add_resource call and the
\* polling thread of Renderer::new are threads the scheduler runs fairly.
LiveSpec ==
    /\ Init
    /\ [][Next]_vars
    /\ \A i \in 1..MaxRegs : WF_vars(i \in DOMAIN tasks /\ TaskLoad(i))
    /\ \A i \in 1..MaxRegs : WF_vars(i \in DOMAIN tasks /\ TaskStore(i))
    /\ WF_vars(AddResourceSpawn)
    /\ WF_vars(\E validation \in BOOLEAN : \E r \in StartResults(validation) :
                  RendererStart(validation, r))
    /\ WF_vars(RendererPoll)
    /\ WF_vars(RendererSleep)
    /\ WF_vars(\E ok \in BOOLEAN : RendererResolve(ok))

\* ------------------------------------------------------------------ claims

Terminal(s) == is_loaded(s) \/ is_failed(s)

\* C1: once get_resource(name) has returned Loaded or Failed, every later
\* get_resource(name) that returns a state returns that same state: the state
\* never goes back to Loading and never flips between Loaded and Failed.
\* Stated for the case the claim names, two loaders of one name running at
\* once: between the two observations no add_resource call is made.
C1_TerminalStateIsFinal ==
    [][ (/\ Terminal(peeked.result)
         /\ peeked'.name = peeked.name
         /\ peeked'.at = peeked.at
         /\ ~is_panic(peeked'.result))
        => peeked'.result = peeked.result ]_vars

\* C2: add_resource inserts Loading under the name before it spawns the task
\* (and spawns the task of that call); a task that finishes writes, under its
\* name only, Loaded(resource the loader returned) or Failed; a loader error
\* neither ends the process nor, on a healthy lock, panics the task.
C2_RegisterThenOutcome ==
    [][ /\ (~reg.active /\ reg'.active)
            => (resources'[reg'.name] = Loading /\ tasks' = tasks)
        /\ Len(tasks') > Len(tasks)
            => /\ reg.active
               /\ reg.name \in DOMAIN resources
               /\ tasks' = Append(tasks, [name |-> reg.name, load |-> reg.load,
                                          pc |-> "loading"])
        /\ \A i \in DOMAIN tasks :
              /\ (tasks[i].pc # "done" /\ tasks'[i].pc = "done")
                    => /\ tasks[i].load.kind \in {"Ok", "Err"}
                       /\ resources'[tasks[i].name] =
                             (IF tasks[i].load.kind = "Ok"
                                THEN [tag |-> "Loaded", res |-> tasks[i].load.res]
                                ELSE [tag |-> "Failed"])
                       /\ \A n \in DOMAIN resources \ {tasks[i].name} :
                             resources'[n] = resources[n]
              /\ tasks'[i] # tasks[i] => exited' = exited
              /\ (tasks[i].load.kind = "Err" /\ tasks'[i].pc = "panicked")
                    => poisoned
      ]_vars

\* C2 witness: one task stored Loaded(shader) and another stored Failed.
C2_Witness ==
    \E i, j \in DOMAIN tasks :
        /\ tasks[i].pc = "done" /\ tasks[i].load.kind = "Ok"
        /\ resources[tasks[i].name] = Loaded(ShaderRes)
        /\ tasks[j].pc = "done" /\ tasks[j].load.kind = "Err"
        /\ resources[tasks[j].name] = Failed

\* Some loader registered for the name does not return (it hangs or panics).
SomeLoaderNeverReturns(name) ==
    \/ \E i \in DOMAIN tasks :
          tasks[i].name = name /\ tasks[i].load.kind \in {"Hang", "Panic"}
    \/ reg.active /\ reg.name = name /\ reg.load.kind \in {"Hang", "Panic"}

Awaiting == cpc \in {"poll", "sleep"}

\* C3: under fair scheduling, a started task whose loader returns Ok(resource)
\* leads to its name reading Loaded(resource), one whose loader returns Err
\* leads to its name reading Failed, and the wait of Renderer::new on a registered name
\* all of whose loaders return ends with the polling loop left.
C3_LoadersEventuallyResolve ==
    /\ \A i \in 1..MaxRegs :
          (i \in DOMAIN tasks /\ tasks[i].load.kind = "Ok" /\ tasks[i].pc # "done")
            ~> (i \in DOMAIN tasks
                  /\ resources[tasks[i].name] = Loaded(tasks[i].load.res))
    /\ \A i \in 1..MaxRegs :
          (i \in DOMAIN tasks /\ tasks[i].load.kind = "Err" /\ tasks[i].pc # "done")
            ~> (i \in DOMAIN tasks /\ resources[tasks[i].name] = Failed)
    /\ Awaiting
          ~> (\/ cpc = "resolve"
              \/ shader_name \notin DOMAIN resources
              \/ SomeLoaderNeverReturns(shader_name))

\* C4: the state Renderer::new matches on after its polling loop is Loaded or
\* Failed, never Loading.
C4_AwaitReturnsTerminal == ~is_loading(cacted.state)

\* C5: get_resource(name) panics exactly when the name was never registered;
\* on a registered name it returns the state the map holds at that moment.
C5_PeekPanicsOnlyOnUnknownName ==
    [][ peeked' # peeked =>
          IF peeked'.name \in DOMAIN resources
            THEN peeked'.result = resources[peeked'.name]
            ELSE is_panic(peeked'.result) ]_vars

C7_FailedShaderFailsBuild ==
    is_failed(cacted.state) =>
        /\ cpc = "failed"
        /\ cres.tag = "Err"
        /\ cres.error = "ShaderLoadingError"
        /\ cres.name = cacted.name
        /\ ~built

\* C7 witness: the second shader of the list resolved to Failed, after the
\* modules of the first were created.
C7_Witness ==
    /\ is_failed(cacted.state)
    /\ cidx = 2
    /\ Len(shader_modules) = 1

WrongKind(state) ==
    IF is_loaded(state) THEN state.res.kind # "Shader" ELSE FALSE

\* C8 as stated: when a shader name resolves to Loaded with a resource that is
\* not a Shader, Renderer::new returns ShaderLoadingError naming it.
C8_WrongKindReturnsError ==
    WrongKind(cacted.state) =>
        /\ cres.tag = "Err"
        /\ cres.error = "ShaderLoadingError"
        /\ cres.name = cacted.name

\* C8 as amended: when a shader name resolves to Loaded with a resource that
\* is not a Shader, Renderer::new panics ("Non shader resource in shader
\* List"): no error value and no Renderer is returned, no swapchain is built.
C8_WrongKindPanics ==
    WrongKind(cacted.state) =>
        /\ cpc = "panicked"
        /\ cres = Panic("Non shader resource in shader List")
        /\ ~built

\* C8 witness: Renderer::new matched on a Loaded(Config).
C8_Witness ==
    cacted = [name |-> "normal", state |-> Loaded(ConfigRes)]

\* p is q, or q cut short.
IsPrefix(p, q) == Len(p) <= Len(q) /\ p = SubSeq(q, 1, Len(p))

\* A trace that follows `full` until a driver call returned an error, at which
\* unwrap_or_log ended the process.
EndedByError(trace, full) ==
    /\ trace # <<>>
    /\ Len(trace) <= Len(full)
    /\ SubSeq(trace, 1, Len(trace) - 1) = SubSeq(full, 1, Len(trace) - 1)
    /\ trace[Len(trace)].op = full[Len(trace)].op
    /\ trace[Len(trace)].slot = full[Len(trace)].slot
    /\ trace[Len(trace)].result # "Ok"
    /\ tpc = "exited"

\* The tick of a slot whose acquisition returned image img.
SubmittedTick(slot, img) ==
    << Op("wait_for_fences", slot, -1, "Ok"),
       Op("acquire_next_image", slot, img, "Ok"),
       Op("reset_fences", slot, -1, "Ok"),
       Op("queue_submit", slot, img, "Ok"),
       Op("queue_present", slot, img, "Ok"),
       Op("advance", slot, -1, "Ok") >>

\* The tick of a slot whose acquisition reported out-of-date.
RebuildTick(slot) ==
    << Op("wait_for_fences", slot, -1, "Ok"),
       Op("acquire_next_image", slot, -1, "ERROR_OUT_OF_DATE_KHR"),
       Op("queue_wait_idle", -1, -1, "Ok"),
       Op("surface_information", -1, -1, "Ok"),
       Op("cleanup_swapchain", -1, -1, "Ok"),
       Op("create_swapchain", -1, -1, "Ok"),
       Op("store", -1, -1, "Ok") >>

Acquired(result) == Len(ops) >= 2 /\ ops[2].result = result

\* C9: a tick whose acquisition succeeded does, once each and in this order:
\* wait on the slot's fence, acquire with the slot's semaphore, reset the
\* slot's fence, submit the acquired image's command buffer with the slot's
\* semaphores and fence, present the acquired image, advance current_frame
\* (unless a driver error ends the process on the way); a reset of a fence
\* is always the third step, after the wait on that fence returned and the
\* acquisition succeeded.
C9_SubmittedTickOrder ==
    /\ Acquired("Ok") =>
          LET full == SubmittedTick(ops[1].slot, ops[2].image) IN
            /\ IsPrefix(ops, full) \/ EndedByError(ops, full)
            /\ tpc = "idle" =>
                  /\ ops = full
                  /\ current_frame = (ops[1].slot + 1) % MAX_FRAMES_IN_FLIGHT
            /\ tpc \notin {"idle", "exited"} =>
                  /\ current_frame = ops[1].slot
                  /\ IsPrefix(ops, full)
                  /\ full[Len(ops) + 1].op = tpc
    /\ \A k \in DOMAIN ops :
          ops[k].op = "reset_fences" =>
              /\ k = 3
              /\ ops[1] = Op("wait_for_fences", ops[k].slot, -1, "Ok")
              /\ ops[2].op = "acquire_next_image" /\ ops[2].result = "Ok"
              /\ ops[2].slot = ops[k].slot

\* C9 witness: a tick of slot 1 that submitted and presented image 1 returned.
C9_Witness ==
    tpc = "idle" /\ ops = SubmittedTick(1, 1) /\ current_frame = 0

\* C10: a tick whose acquisition reported out-of-date does, in this order:
\* wait the present queue idle, re-query the surface, cleanup of the held
\* context, create of a new one, store of the new handles (unless a driver
\* error ends the process on the way); it resets no fence, submits nothing,
\* presents nothing and leaves current_frame alone, so the next tick is on
\* the same slot.
C10_RebuildTickOrder ==
    Acquired("ERROR_OUT_OF_DATE_KHR") =>
        LET full == RebuildTick(ops[1].slot) IN
          /\ IsPrefix(ops, full) \/ EndedByError(ops, full)
          /\ current_frame = ops[1].slot
          /\ fences[ops[1].slot] = "signaled"
          /\ tpc = "idle" =>
                /\ ops = full
                /\ swapchain = fresh
                /\ swapchain.gen \notin destroyed
                /\ \A g \in 0..(swapchain.gen - 1) : g \in destroyed
          /\ tpc \notin {"idle", "exited"} =>
                /\ IsPrefix(ops, full)
                /\ full[Len(ops) + 1].op = tpc

\* C10 witness: a rebuild tick of slot 1 returned, with the new context held.
C10_Witness ==
    /\ tpc = "idle"
    /\ ops = RebuildTick(1)
    /\ current_frame = 1
    /\ swapchain.gen = 1

\* A driver result that is not the one recoverable error.
Fatal(o) ==
    /\ o.result # "Ok"
    /\ ~(o.op = "acquire_next_image" /\ o.result = "ERROR_OUT_OF_DATE_KHR")

\* C11: out-of-date at image acquisition is the only error a tick recovers
\* from (it goes on to the rebuild); every other driver error of a tick (or
\* of Drop), out-of-date reported by present included, is the last call the
\* process makes: it exits, no later step runs and tick returns nothing.
C11_OnlyAcquireOutOfDateRecovers ==
    /\ [](/\ \A k \in DOMAIN ops :
               /\ Fatal(ops[k]) => (k = Len(ops) /\ tpc = "exited" /\ exited)
               /\ (~Fatal(ops[k]) /\ k = Len(ops)) => (tpc # "exited" /\ ~exited)
          /\ exited <=> tpc = "exited")
    /\ [][tpc = "exited" => UNCHANGED frameVars]_vars

\* C11 witness: queue_present reported out-of-date and the process exited.
C11_Witness ==
    /\ tpc = "exited"
    /\ Len(ops) = 5
    /\ ops[5] = Op("queue_present", 1, 0, "ERROR_OUT_OF_DATE_KHR")

\* C12: current_frame starts at 0, stays in {0, 1}, changes only in the last
\* step of a tick that submitted and presented, and then to
\* (current_frame + 1) mod 2; every fence and semaphore a tick uses is the one
\* of the slot current_frame had when the tick started, rebuild ticks included.
C12_FrameSlotCycles ==
    /\ current_frame = 0
    /\ [](/\ current_frame \in {0, 1}
          /\ \A k \in DOMAIN ops : ops[k].slot \in {-1, ops[1].slot}
          /\ (ops # <<>> /\ ops[1].op = "wait_for_fences") =>
                IF ops[Len(ops)].op = "advance"
                  THEN current_frame = (ops[1].slot + 1) % 2
                  ELSE current_frame = ops[1].slot)
    /\ [][(current_frame' # current_frame =>
              /\ tpc = "advance" /\ tpc' = "idle"
              /\ current_frame' = (current_frame + 1) % 2
              /\ ops[4] = Op("queue_submit", current_frame, image_index, "Ok")
              /\ ops[5] = Op("queue_present", current_frame, image_index, "Ok"))
          /\ ((tpc = "advance" /\ tpc' = "idle") => current_frame' # current_frame)
         ]_vars

\* C12 witness: after a rebuild, a tick on slot 1 submitted and presented and
\* current_frame is back at 0.
C12_Witness ==
    /\ tpc = "idle"
    /\ Len(ops) = 6 /\ ops[6].op = "advance" /\ ops[1].slot = 1
    /\ current_frame = 0
    /\ swapchain.gen = 1

\* C13: at most MAX_FRAMES_IN_FLIGHT submissions are in flight, at most one
\* per slot, and when a tick is about to submit with a slot's fence no earlier
\* submission with that fence is still in flight.
C13_AtMostTwoFramesInFlight ==
    /\ \A s \in Slots : in_flight[s] <= 1
    /\ Cardinality({s \in Slots : in_flight[s] > 0}) <= 2
    /\ tpc \in {"reset_fences", "queue_submit"} => in_flight[current_frame] = 0

\* C13 witness: two frames are in flight and the next tick has not passed its
\* fence wait.
C13_Witness ==
    /\ \A s \in Slots : in_flight[s] = 1
    /\ tpc = "idle"
    /\ current_frame = 0

\* The swapchain contexts vk_log mentions.
Gens == {vk_log[k].gen : k \in DOMAIN vk_log} \ {-1}

\* Positions of vk_log where an object of context g is created / destroyed.
CreatedAt(g) == {k \in DOMAIN vk_log : vk_log[k].act = "create" /\ vk_log[k].gen = g}
DestroyedAt(g) == {k \in DOMAIN vk_log : vk_log[k].act = "destroy" /\ vk_log[k].gen = g}

\* Place of a kind of object in an order of kinds.
Rank(order, obj) == CHOOSE k \in DOMAIN order : order[k] = obj
Kinds(order) == {order[k] : k \in DOMAIN order}

\* Among the positions at, of objects of the kinds of order, a later position
\* never holds a kind that order puts earlier.
InOrder(at, order) ==
    \A i, j \in at :
        (/\ i < j
         /\ vk_log[i].obj \in Kinds(order)
         /\ vk_log[j].obj \in Kinds(order))
          => Rank(order, vk_log[i].obj) <= Rank(order, vk_log[j].obj)

\* Every object of context g that was created is destroyed, once.
DestroyedOnce(g) ==
    /\ \A c \in CreatedAt(g) :
          Cardinality({k \in DestroyedAt(g) :
                          /\ vk_log[k].obj = vk_log[c].obj
                          /\ vk_log[k].idx = vk_log[c].idx}) = 1
    /\ Cardinality(DestroyedAt(g)) = Cardinality(CreatedAt(g))

TeardownOrder ==
    <<"command_buffers", "framebuffer", "pipeline", "pipeline_layout",
      "render_pass", "image_view", "swapchain">>

\* C14: a teardown of a swapchain context releases command buffers,
\* framebuffers, pipeline, pipeline layout, render pass, image views and the
\* swapchain handle, in that order, each object of the context once and in one
\* uninterrupted run of calls; the teardown of a rebuild tick destroys nothing
\* else (no device, instance, surface, command pool, shader module or sync
\* object).
C14_TeardownOrder ==
    /\ [](\A g \in Gens :
            DestroyedAt(g) # {} =>
              /\ \A k \in DestroyedAt(g) : vk_log[k].obj \in Kinds(TeardownOrder)
              /\ InOrder(DestroyedAt(g), TeardownOrder)
              /\ DestroyedOnce(g)
              /\ \A i, j \in DestroyedAt(g), k \in DOMAIN vk_log :
                    (i < k /\ k < j) => k \in DestroyedAt(g))
    /\ [][tpc = "cleanup_swapchain" =>
            /\ Len(vk_log') > Len(vk_log)
            /\ SubSeq(vk_log', 1, Len(vk_log)) = vk_log
            /\ \A k \in (Len(vk_log) + 1)..Len(vk_log') :
                  /\ vk_log'[k].act = "destroy"
                  /\ vk_log'[k].gen = swapchain.gen
                  /\ vk_log'[k].obj \in Kinds(TeardownOrder)]_vars

\* C14 witness: a rebuild tick has torn down the first context, of two images.
C14_Witness ==
    /\ tpc = "create_swapchain"
    /\ swapchain = [gen |-> 0, images |-> 2]
    /\ vk_log[Len(vk_log)] = Ev("destroy", "swapchain", 0, -1)

\* Every object of context g is destroyed before position p of vk_log.
GoneBefore(g, p) ==
    \A c \in CreatedAt(g) :
        c < p => \E k \in DestroyedAt(g) :
                    /\ k < p
                    /\ vk_log[k].obj = vk_log[c].obj
                    /\ vk_log[k].idx = vk_log[c].idx

\* The swapchain-dependent objects of a context are gone before the next
\* context is created and before the device is destroyed.
GoneBeforeRebuildAndDeviceEnd ==
    \A p \in DOMAIN vk_log :
        /\ (vk_log[p] \in {Ev("create", "swapchain", g, -1) : g \in Gens \ {0}})
              => GoneBefore(vk_log[p].gen - 1, p)
        /\ vk_log[p] = Ev("destroy", "device", -1, -1)
              => \A g \in Gens : GoneBefore(g, p)

\* C15 as stated: the swapchain-dependent objects are destroyed in the order
\* image views, framebuffers, pipeline, render pass, command buffers,
\* swapchain handle, before a rebuild and before the device is destroyed.
C15_ViewsFirstOrder ==
    /\ GoneBeforeRebuildAndDeviceEnd
    /\ \A g \in Gens :
          InOrder(DestroyedAt(g),
                  <<"image_view", "framebuffer", "pipeline", "render_pass",
                    "command_buffers", "swapchain">>)

\* C15 amended: before a rebuild and before the device is destroyed, the
\* swapchain-dependent objects are destroyed in the order command buffers,
\* framebuffers, pipeline, render pass, image views, swapchain handle.
C15_CommandBuffersFirstOrder ==
    /\ GoneBeforeRebuildAndDeviceEnd
    /\ \A g \in Gens :
          InOrder(DestroyedAt(g),
                  <<"command_buffers", "framebuffer", "pipeline", "render_pass",
                    "image_view", "swapchain">>)

\* C15 witness: Drop ran after a rebuild: two contexts were torn down, the
\* second one before the device went.
C15_Witness ==
    /\ tpc = "dropped"
    /\ DestroyedAt(0) # {} /\ DestroyedAt(1) # {}
    /\ \E p \in DOMAIN vk_log : vk_log[p] = Ev("destroy", "device", -1, -1)

\* The kinds of the events of vk_log of one act, at positions whose kind is
\* in kinds and whose context is in gens, in log order, a run of one kind
\* counted once.
KindsLogged(act, kinds, gens) ==
    LET at == {k \in DOMAIN vk_log :
                  /\ vk_log[k].act = act
                  /\ vk_log[k].obj \in kinds
                  /\ vk_log[k].gen \in gens}
        first == {k \in at : \A j \in at : j < k =>
                     \E m \in at : j <= m /\ m < k /\ vk_log[m].obj # vk_log[k].obj}
    IN  [n \in 1..Cardinality(first) |->
            vk_log[CHOOSE k \in first : Cardinality({j \in first : j <= k}) = n].obj]

Reverse(seq) == [i \in 1..Len(seq) |-> seq[Len(seq) + 1 - i]]

\* C16: once Drop ran, instance, diagnostics callback, surface and device
\* were destroyed in the reverse of the order they were created in (device,
\* surface, callback, instance), all of them after every swapchain-dependent
\* object.
C16_DeviceLevelReverseOrder ==
    tpc = "dropped" =>
        LET level == {"instance", "debug_utils_messenger", "surface", "device"} IN
          /\ KindsLogged("destroy", level, {-1})
                = Reverse(KindsLogged("create", level, {-1}))
          /\ \A p \in DOMAIN vk_log :
                (vk_log[p].act = "destroy" /\ vk_log[p].obj \in level)
                  => \A g \in Gens : GoneBefore(g, p)

\* C17: once Drop ran, instance, device and the held context's swapchain,
\* image views and pipeline were created in that order and destroyed in the
\* reverse one: pipeline, image views, swapchain, device, instance.
C17_FiveReverseOrder ==
    tpc = "dropped" =>
        LET five == {"instance", "device", "swapchain", "image_view", "pipeline"}
            held == {-1, swapchain.gen}
        IN  /\ KindsLogged("create", five, held)
                  = <<"instance", "device", "swapchain", "image_view", "pipeline">>
            /\ KindsLogged("destroy", five, held)
                  = <<"pipeline", "image_view", "swapchain", "device", "instance">>

\* C17 witness: Drop ran on a Renderer holding a rebuilt context of two images.
C17_Witness ==
    /\ tpc = "dropped"
    /\ swapchain = [gen |-> 1, images |-> 2]
    /\ vk_log[Len(vk_log)] = Ev("destroy", "instance", -1, -1)

Range(seq) == {seq[k] : k \in DOMAIN seq}

\* C18: the present mode chosen depends only on the set of reported modes:
\* MAILBOX if it is reported, otherwise IMMEDIATE if it is reported,
\* otherwise FIFO (whether or not FIFO is in the list).
C18_PresentModeByPriority ==
    (query.fn = "choose_swap_present_mode" /\ choice.tag = "Some") =>
        LET reported == Range(query.available_present_modes) IN
          choice.value = IF "MAILBOX" \in reported THEN "MAILBOX"
                         ELSE IF "IMMEDIATE" \in reported THEN "IMMEDIATE"
                         ELSE "FIFO"

\* C18 witness: IMMEDIATE was reported before FIFO and MAILBOX, and MAILBOX
\* was chosen.
C18_Witness ==
    /\ query.fn = "choose_swap_present_mode"
    /\ query.available_present_modes = <<"IMMEDIATE", "FIFO", "MAILBOX">>
    /\ choice = Chosen("MAILBOX")

\* C19: on a non-empty list of formats: a single entry whose format is
\* UNDEFINED gives (B8G8R8A8_UNORM, SRGB_NONLINEAR); otherwise a list
\* holding that pair anywhere gives that pair; otherwise the first entry.
C19_SurfaceFormatChoice ==
    (/\ query.fn = "choose_swap_surface_format"
     /\ choice.tag = "Some"
     /\ query.available_formats # <<>>) =>
        LET formats == query.available_formats
            preferred == [format |-> "B8G8R8A8_UNORM", color_space |-> "SRGB_NONLINEAR"]
        IN  choice.value =
              IF Len(formats) = 1 /\ formats[1].format = "UNDEFINED" THEN preferred
              ELSE IF preferred \in Range(formats) THEN preferred
              ELSE formats[1]

\* C19 witness: the preferred pair was reported second, and chosen.
C19_Witness ==
    /\ query.fn = "choose_swap_surface_format"
    /\ query.available_formats =
          << [format |-> "R8G8B8A8_UNORM", color_space |-> "SRGB_NONLINEAR"],
             [format |-> "B8G8R8A8_UNORM", color_space |-> "SRGB_NONLINEAR"] >>
    /\ choice = Chosen([format |-> "B8G8R8A8_UNORM", color_space |-> "SRGB_NONLINEAR"])

\* v brought into [lo, hi], for lo <= hi.
Clamped(v, lo, hi) == IF v < lo THEN lo ELSE IF v > hi THEN hi ELSE v

\* C20: a concrete current extent is the result; with the "any size" value
\* and min <= max, each component of the result is the window's size (to the
\* nearest whole number) clamped into [min, max], so it lies in [min, max]
\* and a whole size inside the bounds comes back unchanged. With
\* min = (64, 64) and max = (4096, 4096): (10, 10) gives (64, 64),
\* (9000, 9000) gives (4096, 4096), (800, 600) gives (800, 600).
C20_ExtentChoice ==
    (query.fn = "choose_swap_extent" /\ choice.tag = "Some") =>
        LET caps == query.capabilites
            lo == caps.min_image_extent
            hi == caps.max_image_extent
            w == query.window_size.width
            h == query.window_size.height
            got == choice.value
        IN  /\ caps.current_extent # [width |-> U32Max, height |-> U32Max]
                  => got = caps.current_extent
            /\ (/\ caps.current_extent = [width |-> U32Max, height |-> U32Max]
                /\ lo.width <= hi.width /\ lo.height <= hi.height) =>
                  /\ got.width = Clamped((w + 1) \div 2, lo.width, hi.width)
                  /\ got.height = Clamped((h + 1) \div 2, lo.height, hi.height)
                  /\ lo.width <= got.width /\ got.width <= hi.width
                  /\ lo.height <= got.height /\ got.height <= hi.height
                  /\ (w % 2 = 0 /\ lo.width <= w \div 2 /\ w \div 2 <= hi.width)
                        => got.width = w \div 2
                  /\ (h % 2 = 0 /\ lo.height <= h \div 2 /\ h \div 2 <= hi.height)
                        => got.height = h \div 2
                  /\ (lo = [width |-> 64, height |-> 64]
                        /\ hi = [width |-> 4096, height |-> 4096]) =>
                        /\ (w = 20 /\ h = 20) => got = [width |-> 64, height |-> 64]
                        /\ (w = 18000 /\ h = 18000)
                              => got = [width |-> 4096, height |-> 4096]
                        /\ (w = 1600 /\ h = 1200)
                              => got = [width |-> 800, height |-> 600]

\* C20 witness: a 10 x 9000 window on a surface of any size with bounds
\* (64, 64) and (4096, 4096) gave (64, 4096).
C20_Witness ==
    /\ query.fn = "choose_swap_extent"
    /\ query.window_size = [width |-> 20, height |-> 18000]
    /\ query.capabilites = [current_extent |-> [width |-> U32Max, height |-> U32Max],
                            min_image_extent |-> [width |-> 64, height |-> 64],
                            max_image_extent |-> [width |-> 4096, height |-> 4096]]
    /\ choice = Chosen([width |-> 64, height |-> 4096])

\* C26: no thread holds the store's lock while a background task runs its
\* loader: at every such point a get_resource of any name and (when the
\* caller is between calls) an add_resource can take the lock at once.
C26_LockFreeWhileLoading ==
    \A i \in DOMAIN tasks :
        tasks[i].pc = "loading" =>
            /\ lock_owner = 0
            /\ \A name \in Names : ENABLED Peek(name)
            /\ (~reg.active /\ nregs < MaxRegs) =>
                  \A name \in Names : ENABLED (\E load \in Loaders : AddResourceInsert(name, load))

\* C26 witness: while the loader of a name runs, a get_resource of that name
\* returned Loading, after a second add_resource had been made.
C26_Witness ==
    /\ Len(tasks) = 2
    /\ tasks[1].pc = "loading"
    /\ peeked = [name |-> tasks[1].name, result |-> Loading, at |-> 2]


\* The errors a failure of the step at position pc is reported with.
StepErrors(pc) ==
    CASE pc = "start" -> { "LoadingError", "InstanceError", "DebugCallbackError",
                           "SurfaceCreationError", "PhysicalDeviceError",
                           "DeviceCreationError" }
      [] pc = "resolve" -> { "ShaderLoadingError" }
      [] pc = "command_pool" -> { "CommandBufferError" }
      [] pc = "create_swapchain" -> { "SwapchainCreationError", "PipelineCreationError",
                                      "FramebufferCreationError", "CommandBufferError" }
      [] pc = "sync" -> { "SyncCreationError" }
      [] OTHER -> {}

\* C25: a failure of any step of renderer construction (library load, instance,
\* debug callback, surface, physical-device selection, device, shader module,
\* swapchain, pipeline, framebuffer, command buffer, sync objects) ends the
\* construction with the typed error of that step; the failed step is not tried
\* again and no later step runs, no Renderer value is returned, and Game::new
\* returns RendererCreation carrying that error.
C25_FailuresAreTypedErrors ==
    /\ [](cpc = "failed" =>
            /\ cres.tag = "Err"
            /\ cres.error \in RendererInitErrors
            /\ game \in {NoResult, RendererCreation(cres)})
    /\ [](game = OkGame => cpc = "done" /\ cres = OkRenderer)
    /\ [][(cpc # "failed" /\ cpc' = "failed") => cres'.error \in StepErrors(cpc)]_vars
    /\ [][cpc = "failed" => UNCHANGED <<cpc, cres, cidx, shader_modules, built>>]_vars

\* A construction with two shader modules whose framebuffers failed, reported
\* by Game::new.
C25_Witness ==
    /\ cpc = "failed"
    /\ cres.error = "FramebufferCreationError"
    /\ game = RendererCreation(cres)
    /\ Len(shader_modules) = 2

\* C22: the swapchain of the initial build and of every rebuild is created
\* with sharing mode CONCURRENT, listing the graphics and the present family
\* index, exactly when the two indices differ, and with EXCLUSIVE exactly when
\* they are equal.
C22_SharingModeByFamilies ==
    /\ create_info.image_sharing_mode \in {"CONCURRENT", "EXCLUSIVE"}
    /\ create_info.image_sharing_mode = "CONCURRENT"
          <=> families.graphics # families.present
    /\ create_info.image_sharing_mode = "EXCLUSIVE"
          <=> families.graphics = families.present
    /\ create_info.image_sharing_mode = "CONCURRENT"
          => create_info.queue_family_indices = <<families.graphics, families.present>>
    /\ (tpc \in {"store", "idle"} /\ ~exited) => create_info.gen = fresh.gen

\* The second rebuild created its swapchain, for families 1 and 0.
C22_Witness ==
    /\ tpc = "store"
    /\ fresh.gen = 2
    /\ create_info.gen = 2
    /\ families = [graphics |-> 1, present |-> 0]
    /\ create_info.image_sharing_mode = "CONCURRENT"

HoldsContext ==
    tpc \in { "idle", "acquire_next_image", "reset_fences", "queue_submit",
              "queue_present", "advance", "queue_wait_idle", "surface_information",
              "cleanup_swapchain" }

\* C29: after the build and after every rebuild the Renderer holds as many image
\* views, framebuffers and command buffers as the swapchain has images, and
\* command buffer i was recorded with framebuffer i; so the image index of a
\* successful acquire is an index into command_buffers when the tick submits,
\* also after a rebuild that changed the number of images.
C29_CountsMatchImages ==
    /\ HoldsContext =>
          /\ handles.image_views.n = swapchain.images
          /\ handles.swapchain_framebuffers.n = swapchain.images
          /\ handles.command_buffers.n = swapchain.images
          /\ Len(handles.command_buffers.framebuffer) = handles.command_buffers.n
          /\ \A i \in 1..handles.command_buffers.n :
                handles.command_buffers.framebuffer[i] = i - 1
    /\ tpc \in {"reset_fences", "queue_submit", "queue_present"} =>
          image_index \in 0..(handles.command_buffers.n - 1)

\* A tick about to submit command buffer 1 after a rebuild took the swapchain
\* from one image to two.
C29_Witness ==
    /\ tpc = "queue_submit"
    /\ swapchain = [gen |-> 1, images |-> 2]
    /\ image_index = 1
    /\ \E i \in DOMAIN vk_log : vk_log[i] = Ev("destroy", "image_view", 0, 0)
    /\ ~\E i \in DOMAIN vk_log : vk_log[i] = Ev("create", "image_view", 0, 1)

\* The events of vk_log that destroy the object (obj, gen, idx).
Destroys(obj, gen, idx) ==
    { i \in DOMAIN vk_log : vk_log[i] = Ev("destroy", obj, gen, idx) }

\* C30: once a rebuild tick has returned, the swapchain and the six other
\* swapchain-dependent fields of the Renderer all refer to the context the
\* rebuild built, none of whose objects has been destroyed; and no tick and no
\* drop destroys an object a second time.
C30_HandlesReferToLiveContext ==
    /\ HoldsContext =>
          /\ swapchain.gen = fresh.gen
          /\ \A kind \in DOMAIN handles : handles[kind].gen = swapchain.gen
          /\ \A i \in DOMAIN vk_log :
                vk_log[i].act = "destroy" => vk_log[i].gen # swapchain.gen
    /\ \A i, j \in DOMAIN vk_log :
          (i < j /\ vk_log[i].act = "destroy" /\ vk_log[j].act = "destroy")
              => vk_log[i] # vk_log[j]

\* A drop after a frame was submitted from the context of the second rebuild.
C30_Witness ==
    /\ tpc = "dropped"
    /\ swapchain.gen = 2
    /\ current_frame = 1
    /\ Destroys("command_buffers", 2, -1) # {}
    /\ Destroys("command_buffers", 1, -1) # {}

\* C28: at the start of every tick the current slot's fence is signaled (as it
\* was created, or as a rebuild tick that returned early left it) or is pending
\* on a submission of an earlier tick that signals it; so, as long as the GPU
\* completes submitted work, wait_for_fences returns in every tick, rebuilds
\* interleaved or not.
C28_FenceWaitNeverBlocksForever ==
    /\ [](tpc = "idle" =>
            \/ fences[current_frame] = "signaled"
            \/ fences[current_frame] = "pending" /\ in_flight[current_frame] > 0)
    /\ (tpc = "idle") ~> (tpc # "idle" \/ fences[current_frame] = "signaled")

\* A tick starts, after a rebuild, on a slot whose earlier submission the GPU
\* has not finished.
C28_Witness ==
    /\ tpc = "idle"
    /\ swapchain.gen = 1
    /\ fences[current_frame] = "pending"
    /\ fences[NextFrame(current_frame)] = "pending"

\* C21: the image count asked for is min_image_count + 1, except that it is
\* max_image_count when that is nonzero and min_image_count + 1 exceeds it;
\* with max_image_count = 0 it is always min_image_count + 1.
C21_ImageCount ==
    (query.fn = "image_count" /\ choice.tag = "Some") =>
        LET lo == query.capabilites.min_image_count
            hi == query.capabilites.max_image_count
        IN  /\ hi = 0 => choice.value = lo + 1
            /\ (hi # 0 /\ lo + 1 > hi) => choice.value = hi
            /\ (hi # 0 /\ lo + 1 <= hi) => choice.value = lo + 1

\* min_image_count = max_image_count = 2: the count is capped at 2.
C21_Witness ==
    /\ query.fn = "image_count"
    /\ query.capabilites = [min_image_count |-> 2, max_image_count |-> 2]
    /\ choice = Chosen(2)

\* Whether a device satisfies every constraint of the selection.
Suitable(d) ==
    /\ d.extensions = "ok"
    /\ d.surface = "ok"
    /\ d.formats >= 1
    /\ d.present_modes >= 1
    /\ \E k \in DOMAIN d.queue_families : d.queue_families[k].graphics
    /\ \E k \in DOMAIN d.queue_families : d.queue_families[k].present

\* C23: for every enumeration of devices the selected device is the first one
\* that supports the swapchain extension, reports a surface format and a
\* present mode and has a graphics family and a family that can present; and
\* the selection fails with 'no suitable device' exactly when no device
\* satisfies all of that.
C23_FirstFitSelection ==
    (query.fn = "select_physical_device" /\ choice.tag = "Some") =>
        LET fit == { i \in DOMAIN query.devices : Suitable(query.devices[i]) } IN
        /\ fit # {} =>
              /\ choice.value.tag = "Ok"
              /\ choice.value.physical_device \in fit
              /\ \A i \in fit : choice.value.physical_device <= i
        /\ fit = {} <=>
              choice.value = PhysicalDeviceError("Failed to find suitable device")

\* C24: device creation is given one queue-create request per distinct value
\* among the graphics and the present family index: one when they coincide,
\* two with different family indices when they differ, never two for one family.
C24_OneRequestPerFamily ==
    (query.fn = "device_queue_create_info" /\ choice.tag = "Some") =>
        LET infos == choice.value
            g == query.graphics_family_index
            p == query.present_family_index
        IN  /\ Len(infos) = Cardinality({g, p})
            /\ { infos[i].queue_family_index : i \in DOMAIN infos } = {g, p}
            /\ \A i, j \in DOMAIN infos :
                  i # j => infos[i].queue_family_index # infos[j].queue_family_index
            /\ g = p => Len(infos) = 1
            /\ g # p => Len(infos) = 2

\* Both indices are family 1: one request, for family 1.
C24_Witness ==
    /\ query.fn = "device_queue_create_info"
    /\ query.graphics_family_index = 1
    /\ query.present_family_index = 1
    /\ choice.tag = "Some"
    /\ Len(choice.value) = 1
    /\ choice.value[1].queue_family_index = 1

\* The positions in vk_log of the events act on the object an event names.
EventsOn(act, e) ==
    { i \in DOMAIN vk_log : vk_log[i] = Ev(act, e.obj, e.gen, e.idx) }

\* The kinds of object created from the logical device.
DeviceChildren ==
    { "shader_module", "command_pool", "swapchain", "image_view", "pipeline_layout",
      "render_pass", "pipeline", "framebuffer", "command_buffers",
      "image_available_semaphore", "render_finished_semaphore", "in_flight_fence" }

\* C31: once a Renderer has been dropped, after any ticks and rebuilds, every
\* object it created (the sync objects, every generation of swapchain-dependent
\* objects, command pool, shader modules, surface, device, debug messenger,
\* instance) was destroyed exactly once, after its creation; nothing else was
\* destroyed; and every object created from the device went before the device.
C31_EverythingDestroyedOnce ==
    tpc = "dropped" =>
        /\ \A i \in DOMAIN vk_log :
              /\ Cardinality(EventsOn("create", vk_log[i])) = 1
              /\ Cardinality(EventsOn("destroy", vk_log[i])) = 1
              /\ \A c \in EventsOn("create", vk_log[i]) :
                    \A d \in EventsOn("destroy", vk_log[i]) : c < d
        /\ \A i, j \in DOMAIN vk_log :
              (/\ vk_log[i].act = "destroy"
               /\ vk_log[i].obj \in DeviceChildren
               /\ vk_log[j] = Ev("destroy", "device", -1, -1)) => i < j

\* A Renderer with the debug messenger and two images, dropped after two
\* rebuilds and a frame submitted since.
C31_Witness ==
    /\ tpc = "dropped"
    /\ swapchain = [gen |-> 2, images |-> 2]
    /\ current_frame = 1
    /\ \E i \in DOMAIN vk_log : vk_log[i] = Ev("destroy", "debug_utils_messenger", -1, -1)
    /\ \E i \in DOMAIN vk_log : vk_log[i] = Ev("destroy", "framebuffer", 0, 1)

\* C32: a swapchain build creates one graphics pipeline per resolved shader
\* pair: with n pairs, n pipelines, the i-th using the vertex and the fragment
\* stage of the i-th pair.
C32_OnePipelinePerShaderPair ==
    built =>
        /\ Len(pipelines) = Len(shader_modules)
        /\ \A i \in DOMAIN pipelines :
              pipelines[i].stages = <<Stage("VERTEX", shader_modules[i]),
                                      Stage("FRAGMENT", shader_modules[i])>>

\* The map and the heap agree: the entry of a name is the value of the Arc
\* the map holds for it.
EntriesAreArcs ==
    /\ DOMAIN entry = DOMAIN resources
    /\ \A n \in DOMAIN entry : entry[n] \in DOMAIN arcs /\ arcs[entry[n]] = resources[n]

\* C35: the value returned by a peek is an immutable snapshot: whatever the
\* loader tasks store and whatever is registered afterwards, the Arc a
\* get_resource call returned still reads as the state it returned.
C35_SnapshotImmutable ==
    /\ EntriesAreArcs
    /\ ~is_panic(peeked.result) /\ peeked # NoPeek =>
          /\ snapshot \in DOMAIN arcs
          /\ arcs[snapshot] = peeked.result

\* A Loading snapshot of a name whose entry the loader has since replaced by
\* Loaded, and which still reads Loading.
C35_Witness ==
    /\ is_loading(peeked.result)
    /\ is_loaded(resources[peeked.name])
    /\ arcs[snapshot] = Loading

\* The shader name Renderer::new is at, and the entry the store holds for it.
AtShader == shader_names[cidx]
ShaderEntry == resources[AtShader]

\* C33: resources are independent.  A loader task's completion changes the
\* entry of its own name only; no step removes a name from the store; and
\* Renderer::new reads the shader names only: it sleeps only while the shader
\* it is at is Loading, and with the store unpoisoned and the shader
\* registered it fails or panics in the shader loop only for what that
\* shader's entry holds or for a driver error, whatever the other entries are.
C33_ResourcesIndependent ==
    /\ [][ \A i \in DOMAIN tasks :
              tasks'[i].pc # tasks[i].pc =>
                 \A n \in DOMAIN resources :
                    n # tasks[i].name => resources'[n] = resources[n] ]_vars
    /\ [][ \A n \in DOMAIN resources : n \in DOMAIN resources' ]_vars
    /\ [](cacted # NoActed => cacted.name \in Range(shader_names))
    /\ [][ (cpc = "poll" /\ cpc' = "sleep") =>
              AtShader \in DOMAIN resources /\ is_loading(ShaderEntry) ]_vars
    /\ [][ (/\ cpc \in {"poll", "resolve"} /\ cpc' # cpc
            /\ ~poisoned /\ AtShader \in DOMAIN resources) =>
              /\ cpc = "poll" => (cpc' = "sleep") = is_loading(ShaderEntry)
              /\ cpc' = "panicked" =>
                    is_loaded(ShaderEntry) /\ ShaderEntry.res.kind # "Shader"
              /\ cpc' = "failed" =>
                    /\ cres'.error = "ShaderLoadingError" /\ cres'.name = AtShader
                    /\ ~is_loaded(ShaderEntry) \/ cres'.err = "vk" ]_vars

\* Renderer::new returned Ok for the one shader "normal" while the config
\* resource is Failed.
C33_Witness ==
    /\ cres = OkRenderer
    /\ shader_names = <<"normal">>
    /\ "config" \in DOMAIN resources
    /\ is_failed(resources["config"])

\* The loader tasks registered under the name of task i, and whether that
\* name is being registered again (inserted, its task not yet spawned).
SameName(i) == { j \in DOMAIN tasks : tasks[j].name = tasks[i].name }
Reregistering(i) == reg.active /\ reg.name = tasks[i].name

\* The thread of task i has ended: it stored its result, or it panicked.
Ended(i) == tasks[i].pc \in {"done", "panicked"}

\* C36: every way a load can fail ends in the Failed state: once the thread
\* of a loader that returned an error or panicked has ended (its name
\* registered once, the store usable), the entry of its name is Failed, not
\* Loading.
C36_FailedLoadIsFailed ==
    \A i \in DOMAIN tasks :
        (/\ tasks[i].load.kind \in {"Err", "Panic"}
         /\ Ended(i)
         /\ SameName(i) = {i} /\ ~Reregistering(i)
         /\ ~poisoned) =>
            is_failed(resources[tasks[i].name])

\* The part of C36 that the code keeps: a loader that returns Err ends in Failed.
ErrLoadIsFailed ==
    \A i \in DOMAIN tasks :
        (/\ tasks[i].load.kind = "Err"
         /\ Ended(i)
         /\ SameName(i) = {i} /\ ~Reregistering(i)
         /\ ~poisoned) =>
            is_failed(resources[tasks[i].name])

\* C37: a peek on a never-registered name fails only for its caller: after
\* it the store is still usable (locking it does not panic), and a loader
\* task panics only if its own loader did.
C37_NonexistentPeekFailsOnlyCaller ==
    /\ peeked.result = Panic("Called Resources::get_resource on nonexistent resource")
          => ~LockPanics
    /\ \A i \in DOMAIN tasks :
          tasks[i].pc = "panicked" => tasks[i].load.kind = "Panic"

\* C38: the debug callback hands the driver's message to the log with the
\* newlines stripped: whatever the message, the logged text contains no line
\* feed.
C38_LoggedTextHasNoNewline ==
    (query.fn = "vulkan_debug_callback" /\ choice.tag = "Some") =>
        \A i \in DOMAIN choice.value.logged :
            \A k \in DOMAIN choice.value.logged[i].text :
                choice.value.logged[i].text[k] # "\n"

\* The part of C38 that the code keeps: the logged text neither starts nor
\* ends with a line feed.
LoggedTextHasNoOuterNewline ==
    (query.fn = "vulkan_debug_callback" /\ choice.tag = "Some") =>
        \A i \in DOMAIN choice.value.logged :
            LET text == choice.value.logged[i].text IN
            text # <<>> => text[1] # "\n" /\ text[Len(text)] # "\n"

\* C34: a tick never waits on the resource store.  A step of the tick leaves
\* the store as it is; wherever the tick stands, its next successful step can
\* be taken whatever the store holds (entries Loading or Failed, the Mutex
\* poisoned), unless it stands at the fence wait with the fence unsignaled or
\* at the present-queue idle wait with the queue busy; and the pipelines of
\* every build, the rebuilds included, are those of the shader modules created
\* at startup.
C34_TickIgnoresStore ==
    /\ [][ (tpc' # tpc \/ ops' # ops) => UNCHANGED storeVars ]_vars
    /\ [](tpc \notin {"exited", "dropped"} =>
            \/ ENABLED TickProceeds
            \/ tpc = "idle" /\ ~FenceWaitReturns(current_frame)
            \/ tpc = "queue_wait_idle" /\ ~PresentQueueIdle)
    /\ [](/\ shader_modules = <<"normal">>
          /\ pipelines = create_graphics_pipelines(<<"normal">>))

\* The renderer holds a rebuilt swapchain while the shader's entry, registered
\* again after startup, is Failed and the Mutex is poisoned.
C34_Witness ==
    /\ swapchain.gen = 1
    /\ tpc = "idle"
    /\ is_failed(resources["normal"])
    /\ poisoned

\* A step of Renderer::run: the tick's position or its trace moves on (the
\* dispatcher's call, which only clears the trace, and Drop are no tick steps).
TickStep ==
    /\ tpc' # tpc \/ ops' # ops
    /\ ops' # <<>>
    /\ tpc' # "dropped" /\ ~(tpc = "idle" /\ ops'[1].op = "drop")

\* C39: Game::run runs the renderer's tick once per loop iteration, after the
\* event handler of that iteration: a tick step is taken only inside the one
\* call the dispatcher makes after the event handler has run, and the loop
\* body ends with each of the two systems run once, in that order.  After a
\* close request was handled the loop is left at its next check, and only
\* there, so the iteration is completed first; once the loop is left no tick
\* step is taken.
C39_OneTickPerIteration ==
    /\ [][ TickStep => lpc = "tick" /\ ran = <<"event_handler">> ]_vars
    /\ [](lpc = "maintain" => ran = <<"event_handler", "renderer">>)
    /\ [][ (lpc' = "tick" /\ lpc # "tick") => ran = <<"event_handler">> ]_vars
    /\ [][ (lpc' = "left" /\ lpc # "left") => lpc = "check" /\ ~running ]_vars
    /\ [][ (lpc = "check" /\ ~running) => lpc' \in {"check", "left"} ]_vars
    /\ [][ ~running => ~running' ]_vars
    /\ [][ lpc = "left" => lpc' = "left" /\ ~TickStep ]_vars

\* The loop was left after a close request: the last tick, the second one
\* (of slot 1), was completed in the iteration that handled the request.
C39_Witness ==
    /\ lpc = "left"
    /\ ~running
    /\ tpc = "idle"
    /\ ops = SubmittedTick(1, 0)
====
